---- MODULE Spec2Model ----
(***************************************************************************)
(* Model of the physioguidance backend: the BigQuery data access layer     *)
(* (users table + one table per role), the authentication service and the  *)
(* request pipeline (JWT middleware, AuthGuard, RolesGuard,                *)
(* PrivilegeGuard) in front of the admin operations.                       *)
(***************************************************************************)
EXTENDS Integers, Sequences, FiniteSets, TLC

(***************************************************************************)
(* Bounds of the model.                                                    *)
(***************************************************************************)
\* number of userIds (uuid values) that can ever be generated
MaxUsers == 2
\* longest role array a caller supplies
MaxRoleList == 2
\* most rows one user has in one role table
MaxRows == 2
\* AuthService calls in progress at the same time
MaxCalls == 2

(***************************************************************************)
(* Enums and plain values.                                                 *)
(***************************************************************************)
\* enum Role
Role == {"USER", "LEARNER", "ADMIN", "FINANCE"}

\* enum Privilege
Privilege == {"EDITOR", "VIEWER"}

\* an absent property / parameter (undefined) and a query with no row (null)
undefined == "undefined"
null == "null"

\* an absent roles property (of a Partial<User>, of a handler's metadata)
noRoles == <<"undefined">>

\* no row of the users table (rows.length > 0 ? rows[0] : null)
nullUser ==
  [userId |-> 0, name |-> null, email |-> null, password |-> null,
   roles |-> <<>>]

\* role.toLowerCase()
getRoleTableName(role) ==
  CASE role = "USER" -> "user"
    [] role = "LEARNER" -> "learner"
    [] role = "ADMIN" -> "admin"
    [] role = "FINANCE" -> "finance"

RoleTables == {getRoleTableName(r) : r \in Role}

UserIds == 1..MaxUsers

\* Array.prototype.includes
includes(arr, x) == \E i \in 1..Len(arr) : arr[i] = x

\* the roles of an array, as a set
RoleSet(arr) == {arr[i] : i \in 1..Len(arr)}

\* the roles callers assign in this model (LEARNER is assigned by register)
InputRoles == {"ADMIN", "FINANCE"}

\* role arrays a caller can send
RoleLists == UNION {[1..n -> InputRoles] : n \in 0..MaxRoleList}

Min(a, b) == IF a < b THEN a ELSE b

(***************************************************************************)
(* The store: the users table and the role tables.                         *)
(* users[id] is the row of the users table with userId = id (nullUser if   *)
(* there is none);                                                         *)
(* roleTab[t][id] is the list of privilege values of the rows of table t   *)
(* with userId = id, in insertion order.                                   *)
(***************************************************************************)
VARIABLES users, roleTab, nextId, last, req, calls, tables, mig, dataset

storeVars == <<users, roleTab, nextId>>

Store == [users |-> users, tab |-> roleTab]

\* SELECT * FROM users WHERE userId = @userId LIMIT 1
getUserById(st, userId) ==
  IF userId \in UserIds THEN st.users[userId] ELSE nullUser

\* SELECT * FROM users WHERE email = @email LIMIT 1 : the rows that match
UsersByEmail(st, email) ==
  {id \in UserIds : st.users[id] # nullUser /\ st.users[id].email = email}

\* SELECT * FROM users WHERE email = @email AND userId != @excludeUserId
getUserByEmailExcludingUserId(st, email, excludeUserId) ==
  UsersByEmail(st, email) \ {excludeUserId}

\* SELECT privilege FROM <role table> WHERE userId = @userId LIMIT 1 :
\* the values the query can return (LIMIT 1 without ORDER BY returns any
\* matching row)
getUserPrivilegeForRole(st, userId, role) ==
  LET rows == IF userId \in UserIds THEN st.tab[getRoleTableName(role)][userId]
              ELSE <<>>
  IN IF Len(rows) > 0 THEN {rows[i] : i \in 1..Len(rows)} ELSE {null}

(***************************************************************************)
(* Store writes.  Every data access operation is a list of writes issued   *)
(* one after the other with no transaction around them.                    *)
(***************************************************************************)
Write(op, table, userId, privilege, data) ==
  [op |-> op, table |-> table, userId |-> userId,
   privilege |-> privilege, data |-> data]

\* table(...).insert([row]) into a role table, UPDATE ... SET privilege:
\* the privilege column is REQUIRED, so a row without one is rejected
WriteRejected(w) ==
  w.op \in {"insertRow", "updatePrivilege"} /\ w.privilege \notin Privilege

\* UPDATE users SET <fields present> WHERE userId = @userId
SetFields(row, data) ==
  [row EXCEPT
     !.name = IF data.name # undefined THEN data.name ELSE @,
     !.email = IF data.email # undefined THEN data.email ELSE @,
     !.password = IF data.password # undefined THEN data.password ELSE @,
     !.roles = IF data.roles # noRoles THEN data.roles ELSE @]

ApplyWrite(st, w) ==
  CASE w.op = "insertUser" ->
         [st EXCEPT !.users[w.userId] = w.data]
    [] w.op = "insertRow" ->
         [st EXCEPT !.tab[w.table][w.userId] = Append(@, w.privilege)]
    [] w.op = "deleteRows" ->
         [st EXCEPT !.tab[w.table][w.userId] = <<>>]
    [] w.op = "updatePrivilege" ->
         [st EXCEPT !.tab[w.table][w.userId] =
                      [i \in 1..Len(@) |-> w.privilege]]
    [] w.op = "updateUsers" ->
         IF st.users[w.userId] = nullUser THEN st
         ELSE [st EXCEPT !.users[w.userId] = SetFields(@, w.data)]
    [] w.op = "deleteUserRow" ->
         [st EXCEPT !.users[w.userId] = nullUser]

RECURSIVE ApplyWrites(_, _, _)
\* the store after the first n writes of ws
ApplyWrites(st, ws, n) ==
  IF n = 0 THEN st
  ELSE ApplyWrite(ApplyWrites(st, ws, n - 1), ws[n])

\* number of writes of ws that precede the first rejected one
Accepted(ws) ==
  LET bad == {i \in 1..Len(ws) : WriteRejected(ws[i])}
  IN IF bad = {} THEN Len(ws)
     ELSE (CHOOSE i \in bad : \A j \in bad : i <= j) - 1

\* run ws against st; the store raises an error at write number failAt + 1
\* (failAt = Len(ws): no error) or at the first rejected write
Run(st, ws, failAt) ==
  LET n == Min(failAt, Accepted(ws))
  IN [st |-> ApplyWrites(st, ws, n), ok |-> n = Len(ws)]

NoFields == [name |-> undefined, email |-> undefined,
             password |-> undefined, roles |-> noRoles]

(***************************************************************************)
(* BigQueryService: the write lists of the data access operations.         *)
(***************************************************************************)
\* the row createUser inserts into the users table
NewUser(userId, userData) ==
  [userId |-> userId, name |-> userData.name, email |-> userData.email,
   password |-> userData.password, roles |-> userData.roles]

\* a createUser that gives every role VIEWER
createUserWrites_viewer(userId, userData) ==
  <<Write("insertUser", "users", userId, undefined, NewUser(userId, userData))>>
  \o [i \in 1..Len(userData.roles) |->
        Write("insertRow", getRoleTableName(userData.roles[i]), userId,
              "VIEWER", undefined)]

\* createUser: the users row first, then one row per entry of userData.roles
createUserWrites(userId, userData) ==
  <<Write("insertUser", "users", userId, undefined, NewUser(userId, userData))>>
  \o [i \in 1..Len(userData.roles) |->
        Write("insertRow", getRoleTableName(userData.roles[i]), userId,
              userData.privileges[userData.roles[i]], undefined)]

\* an update that rewrites the roles array before the role tables
updateUserRolesAndPrivilegesWrites_rolesFirst(user, userId, newRoles, newPrivileges) ==
  LET oldRoles == user.roles
      Removed(role) == ~includes(newRoles, role)
      Added(role) == ~includes(oldRoles, role)
      Kept(role) == includes(oldRoles, role)
      rolesToRemove == SelectSeq(oldRoles, Removed)
      rolesToAdd == SelectSeq(newRoles, Added)
      rolesToUpdate == SelectSeq(newRoles, Kept)
  IN <<Write("updateUsers", "users", userId, undefined,
             [NoFields EXCEPT !.roles = newRoles])>>
     \o [i \in 1..Len(rolesToRemove) |->
           Write("deleteRows", getRoleTableName(rolesToRemove[i]), userId,
                 undefined, undefined)]
     \o [i \in 1..Len(rolesToAdd) |->
           Write("insertRow", getRoleTableName(rolesToAdd[i]), userId,
                 newPrivileges[rolesToAdd[i]], undefined)]
     \o [i \in 1..Len(rolesToUpdate) |->
           Write("updatePrivilege", getRoleTableName(rolesToUpdate[i]), userId,
                 newPrivileges[rolesToUpdate[i]], undefined)]

\* updateUserRolesAndPrivileges: deletes, inserts, privilege updates and, as
\* the last write, the roles array of the users row
updateUserRolesAndPrivilegesWrites(user, userId, newRoles, newPrivileges) ==
  LET oldRoles == user.roles
      Removed(role) == ~includes(newRoles, role)
      Added(role) == ~includes(oldRoles, role)
      Kept(role) == includes(oldRoles, role)
      rolesToRemove == SelectSeq(oldRoles, Removed)
      rolesToAdd == SelectSeq(newRoles, Added)
      rolesToUpdate == SelectSeq(newRoles, Kept)
  IN [i \in 1..Len(rolesToRemove) |->
        Write("deleteRows", getRoleTableName(rolesToRemove[i]), userId,
              undefined, undefined)]
     \o [i \in 1..Len(rolesToAdd) |->
           Write("insertRow", getRoleTableName(rolesToAdd[i]), userId,
                 newPrivileges[rolesToAdd[i]], undefined)]
     \o [i \in 1..Len(rolesToUpdate) |->
           Write("updatePrivilege", getRoleTableName(rolesToUpdate[i]), userId,
                 newPrivileges[rolesToUpdate[i]], undefined)]
     \o <<Write("updateUsers", "users", userId, undefined,
                [NoFields EXCEPT !.roles = newRoles])>>

\* deleteUser: one DELETE per entry of user.roles, then the users row
deleteUserWrites(user, userId) ==
  [i \in 1..Len(user.roles) |->
     Write("deleteRows", getRoleTableName(user.roles[i]), userId,
           undefined, undefined)]
  \o <<Write("deleteUserRow", "users", userId, undefined, undefined)>>

\* updateUser: one UPDATE of the fields present in updateData
updateUserWrites(userId, updateData) ==
  <<Write("updateUsers", "users", userId, undefined, updateData)>>

\* no role table holds more than MaxRows rows of one user
WithinRows(st) ==
  \A t \in RoleTables : \A id \in UserIds : Len(st.tab[t][id]) <= MaxRows

Outcome(r) == IF r.ok THEN "ok" ELSE "StoreError"

Called(op, userId, outcome) ==
  [op |-> op, userId |-> userId, outcome |-> outcome]

(***************************************************************************)
(* BigQueryService: the operations, each with the point where the store    *)
(* raises an error (failAt writes succeed; all of them when failAt is the  *)
(* length of the write list).                                              *)
(***************************************************************************)
createUser(userData, failAt) ==
  /\ nextId <= MaxUsers
  /\ LET ws == createUserWrites(nextId, userData)
         r == Run(Store, ws, failAt)
     IN /\ failAt \in 0..Len(ws)
        /\ WithinRows(r.st)
        /\ users' = r.st.users
        /\ roleTab' = r.st.tab
        /\ nextId' = nextId + 1
        /\ last' = Called("createUser", nextId, Outcome(r))

updateUser(userId, updateData, failAt) ==
  IF updateData = NoFields
  THEN /\ last' = Called("updateUser", userId, "Error: No fields to update")
       /\ UNCHANGED storeVars
  ELSE LET ws == updateUserWrites(userId, updateData)
           r == Run(Store, ws, failAt)
       IN /\ failAt \in 0..Len(ws)
          /\ users' = r.st.users
          /\ roleTab' = r.st.tab
          /\ nextId' = nextId
          /\ last' = Called("updateUser", userId,
                            IF ~r.ok THEN "StoreError"
                            ELSE IF getUserById(r.st, userId) = nullUser
                                 THEN "Error: User not found after update"
                                 ELSE "ok")

updateUserRolesAndPrivileges(userId, newRoles, newPrivileges, failAt) ==
  LET user == getUserById(Store, userId)
  IN IF user = nullUser
     THEN /\ last' = Called("updateUserRolesAndPrivileges", userId,
                            "Error: User not found")
          /\ UNCHANGED storeVars
     ELSE LET ws == updateUserRolesAndPrivilegesWrites(user, userId, newRoles,
                                                       newPrivileges)
              r == Run(Store, ws, failAt)
          IN /\ failAt \in 0..Len(ws)
             /\ WithinRows(r.st)
             /\ users' = r.st.users
             /\ roleTab' = r.st.tab
             /\ nextId' = nextId
             /\ last' = Called("updateUserRolesAndPrivileges", userId,
                               Outcome(r))

deleteUser(userId, failAt) ==
  LET user == getUserById(Store, userId)
  IN IF user = nullUser
     THEN /\ last' = Called("deleteUser", userId, "Error: User not found")
          /\ UNCHANGED storeVars
     ELSE LET ws == deleteUserWrites(user, userId)
              r == Run(Store, ws, failAt)
          IN /\ failAt \in 0..Len(ws)
             /\ users' = r.st.users
             /\ roleTab' = r.st.tab
             /\ nextId' = nextId
             /\ last' = Called("deleteUser", userId, Outcome(r))

(***************************************************************************)
(* Initial state: the store as scripts/init-bigquery.ts seeds it, with one *)
(* admin user that holds EDITOR in the admin table.                        *)
(***************************************************************************)
adminUser ==
  [userId |-> 1, name |-> "Admin", email |-> "admin@physioguidance.com",
   password |-> "admin123", roles |-> <<"ADMIN">>]

InitStore ==
  /\ users = [id \in UserIds |-> IF id = 1 THEN adminUser ELSE nullUser]
  /\ roleTab = [t \in RoleTables |->
                  [id \in UserIds |->
                     IF t = "admin" /\ id = 1 THEN <<"EDITOR">> ELSE <<>>]]
  /\ nextId = 2

(***************************************************************************)
(* Inputs.                                                                 *)
(***************************************************************************)
\* Record<Role, Privilege> objects with entries (possibly missing ones) for
\* the roles of a role array
PrivilegeMaps(roles) ==
  {[r \in Role |-> IF r \in RoleSet(roles) THEN p[r] ELSE undefined] :
     p \in [RoleSet(roles) -> Privilege \cup {undefined}]}

\* CreateUserDto values handed to the data access layer
UserDatas ==
  UNION {{[name |-> "A", email |-> "a@x.com", password |-> "p",
           roles |-> roles, privileges |-> p] : p \in PrivilegeMaps(roles)} :
         roles \in RoleLists}

\* Partial<User> values handed to updateUser
UpdateDatas ==
  {NoFields, [NoFields EXCEPT !.name = "B"]}
  \cup {[NoFields EXCEPT !.roles = roles] : roles \in RoleLists}

\* the users the direct calls address: the ones createUser made (the seeded
\* admin is left as it is)
DalUserIds == UserIds \ {adminUser.userId}

\* the store can raise its error before any write of an operation
FailPoints == 0..(2 * MaxRoleList + 1)

(***************************************************************************)
(* Spec: the data access layer called directly, with every argument its    *)
(* operations accept and a store error possible at every write.            *)
(***************************************************************************)
vars ==
  <<users, roleTab, nextId, last, req, calls, tables, mig, dataset>>

\* no request is being handled
NoRequest ==
  [pc |-> "idle", header |-> "none", userId |-> 0, handler |-> "none",
   requiredRoles |-> noRoles, requiredPrivilege |-> undefined, gi |-> 0,
   user |-> nullUser, status |-> "pending", message |-> "", by |-> "",
   trace |-> <<>>, lookups |-> <<>>, storeError |-> "none",
   twinUser |-> nullUser, twinStatus |-> "pending"]

\* the AuthService calls in progress: calls[p] is the call of caller p between
\* its lookups and its writes (pc "idle": no call in progress)
Callers == 1..MaxCalls

NoCall == [pc |-> "idle", op |-> "none", userId |-> 0, email |-> undefined]

\* RoleTableGenerator.getExpectedTableNames: Object.values(Role) mapped to
\* the table names
getExpectedTableNames ==
  <<getRoleTableName("USER"), getRoleTableName("LEARNER"),
    getRoleTableName("ADMIN"), getRoleTableName("FINANCE")>>

\* the tables of the dataset: the role tables and the users table
AllTables == RoleTables \cup {"users"}

\* no validation or migration has run
NoMigration ==
  [op |-> "none", after |-> "none", errors |-> {}, outcome |-> "ok",
   allTablesExist |-> FALSE,
   missingTables |-> <<>>, existingTables |-> <<>>,
   usersTableExists |-> FALSE, probed |-> <<>>, created |-> <<>>,
   failed |-> <<>>, creations |-> <<>>, autoMigrate |-> FALSE,
   startup |-> "none", named |-> <<>>]

Init ==
  /\ InitStore
  /\ last = Called("init", 1, "ok")
  /\ req = NoRequest
  /\ calls = [p \in Callers |-> NoCall]
  /\ tables = AllTables
  /\ mig = NoMigration
  /\ dataset = TRUE

DalCreateUser ==
  /\ \E userData \in UserDatas, failAt \in FailPoints :
       createUser(userData, failAt)
  /\ UNCHANGED <<req, calls, tables, mig, dataset>>

DalUpdateUser ==
  /\ \E userId \in DalUserIds, updateData \in UpdateDatas,
        failAt \in FailPoints :
       updateUser(userId, updateData, failAt)
  /\ UNCHANGED <<req, calls, tables, mig, dataset>>

DalUpdateUserRolesAndPrivileges ==
  /\ \E userId \in DalUserIds, newRoles \in RoleLists, failAt \in FailPoints :
       \E newPrivileges \in PrivilegeMaps(newRoles) :
         updateUserRolesAndPrivileges(userId, newRoles, newPrivileges, failAt)
  /\ UNCHANGED <<req, calls, tables, mig, dataset>>

DalDeleteUser ==
  /\ \E userId \in DalUserIds, failAt \in FailPoints :
       deleteUser(userId, failAt)
  /\ UNCHANGED <<req, calls, tables, mig, dataset>>

Next ==
  \/ DalCreateUser
  \/ DalUpdateUser
  \/ DalUpdateUserRolesAndPrivileges
  \/ DalDeleteUser

Spec == Init /\ [][Next]_vars

(***************************************************************************)
(* SpecDal: the data access layer as the authentication service uses it:   *)
(* updateUser never carries a roles array (AuthService.updateUserByAdmin   *)
(* builds updateData from name, email and password only).                  *)
(***************************************************************************)
BasicUpdateDatas == {d \in UpdateDatas : d.roles = noRoles}

DalUpdateBasicFields ==
  /\ \E userId \in DalUserIds, updateData \in BasicUpdateDatas,
        failAt \in FailPoints :
       updateUser(userId, updateData, failAt)
  /\ UNCHANGED <<req, calls, tables, mig, dataset>>

NextDal ==
  \/ DalCreateUser
  \/ DalUpdateBasicFields
  \/ DalUpdateUserRolesAndPrivileges
  \/ DalDeleteUser

SpecDal == Init /\ [][NextDal]_vars

(***************************************************************************)
(* Consistency of the role arrays with the role tables.                    *)
(***************************************************************************)
\* the role tables that hold a row with userId = id
TablesHolding(st, id) == {t \in RoleTables : Len(st.tab[t][id]) > 0}

\* the role tables the roles array of user id names
TablesOfRoles(st, id) ==
  {getRoleTableName(r) : r \in RoleSet(st.users[id].roles)}

Consistent(st) ==
  \A id \in UserIds :
    st.users[id] # nullUser => TablesHolding(st, id) = TablesOfRoles(st, id)

DalOps ==
  {"createUser", "updateUser", "updateUserRolesAndPrivileges", "deleteUser"}

\* C1: from a store where every user's roles array equals the set of role
\* tables holding a row of that user, every successful createUser,
\* updateUser, updateUserRolesAndPrivileges or deleteUser call ends in such a
\* store again.
C1_ConsistencyAfterSuccess ==
  [][(Consistent(Store) /\ last'.op \in DalOps /\ last'.outcome = "ok")
       => Consistent(Store)']_vars

\* C2: every row of a role table belongs to a user whose roles array names
\* that role, also after a createUser, updateUserRolesAndPrivileges or
\* deleteUser call failed at one of its writes.
C2_NoAssignmentWithoutMembership ==
  \A id \in UserIds :
    TablesHolding(Store, id) # {} =>
      /\ users[id] # nullUser
      /\ TablesHolding(Store, id) \subseteq TablesOfRoles(Store, id)

(***************************************************************************)
(* AuthService: the admin operations, as results on a store                *)
(* ([st |-> store after the call, outcome |-> what the caller gets]).      *)
(***************************************************************************)
\* an absent privileges property
noPrivileges == [r \in Role |-> "absent"]

\* !dto.privileges[role]
PrivilegeMissing(privileges, role) == privileges[role] \notin Privilege

\* the role the BadRequest of the validation loop names: the first role of
\* roles without a privilege ("" when every role has one)
RoleWithoutPrivilege(roles, privileges) ==
  LET missing == {i \in 1..Len(roles) : PrivilegeMissing(privileges, roles[i])}
  IN IF missing = {} THEN ""
     ELSE roles[CHOOSE i \in missing : \A j \in missing : i <= j]

\* a createUserByAdmin that does not validate the privileges
createUserByAdmin_unvalidated(st, userId, createUserDto, failAt) ==
  IF UsersByEmail(st, createUserDto.email) # {}
  THEN [st |-> st, outcome |-> "Conflict", called |-> FALSE, named |-> ""]
  ELSE LET r == Run(st, createUserWrites(userId, createUserDto), failAt)
       IN [st |-> r.st, outcome |-> Outcome(r), called |-> TRUE, named |-> ""]

createUserByAdmin(st, userId, createUserDto, failAt) ==
  IF UsersByEmail(st, createUserDto.email) # {}
  THEN [st |-> st, outcome |-> "Conflict", called |-> FALSE, named |-> ""]
  ELSE IF RoleWithoutPrivilege(createUserDto.roles,
                               createUserDto.privileges) # ""
  THEN [st |-> st, outcome |-> "BadRequest", called |-> FALSE,
        named |-> RoleWithoutPrivilege(createUserDto.roles,
                                       createUserDto.privileges)]
  ELSE LET r == Run(st, createUserWrites(userId, createUserDto), failAt)
       IN [st |-> r.st, outcome |-> Outcome(r), called |-> TRUE, named |-> ""]

\* an updateData that takes the password as supplied
BasicFields_anyPassword(updateUserDto) ==
  [name |-> updateUserDto.name, email |-> updateUserDto.email,
   password |-> updateUserDto.password, roles |-> noRoles]

\* the updateData object updateUserByAdmin builds
BasicFields(updateUserDto) ==
  [name |-> updateUserDto.name,
   email |-> updateUserDto.email,
   password |-> IF updateUserDto.password # "" THEN updateUserDto.password
                ELSE undefined,
   roles |-> noRoles]

\* the writes of updateUserByAdmin: those of updateUserRolesAndPrivileges when
\* roles and privileges are both supplied, then those of updateUser when a
\* basic field is
updateUserByAdminWrites(user, userId, updateUserDto) ==
  (IF updateUserDto.roles # noRoles /\ updateUserDto.privileges # noPrivileges
   THEN updateUserRolesAndPrivilegesWrites(user, userId, updateUserDto.roles,
                                           updateUserDto.privileges)
   ELSE <<>>)
  \o (IF BasicFields(updateUserDto) # NoFields
      THEN updateUserWrites(userId, BasicFields(updateUserDto))
      ELSE <<>>)

updateUserByAdmin(st, userId, updateUserDto, failAt) ==
  LET existingUser == getUserById(st, userId)
  IN IF existingUser = nullUser
     THEN [st |-> st, outcome |-> "BadRequest"]
     ELSE IF /\ updateUserDto.email \notin {undefined, ""}
             /\ updateUserDto.email # existingUser.email
             /\ getUserByEmailExcludingUserId(st, updateUserDto.email,
                                              userId) # {}
     THEN [st |-> st, outcome |-> "Conflict"]
     ELSE IF /\ updateUserDto.roles # noRoles
             /\ updateUserDto.privileges # noPrivileges
             /\ \E i \in 1..Len(updateUserDto.roles) :
                  PrivilegeMissing(updateUserDto.privileges,
                                   updateUserDto.roles[i])
     THEN [st |-> st, outcome |-> "BadRequest"]
     ELSE LET r == Run(st, updateUserByAdminWrites(existingUser, userId,
                                                   updateUserDto), failAt)
          IN [st |-> r.st, outcome |-> Outcome(r)]

deleteUserByAdmin(st, userId, failAt) ==
  LET existingUser == getUserById(st, userId)
  IN IF existingUser = nullUser
     THEN [st |-> st, outcome |-> "BadRequest"]
     ELSE LET r == Run(st, deleteUserWrites(existingUser, userId), failAt)
          IN [st |-> r.st, outcome |-> Outcome(r)]

(***************************************************************************)
(* The guards.                                                             *)
(***************************************************************************)
\* AuthGuard.canActivate: the request must carry a user
AuthGuard(user) ==
  IF user = nullUser THEN "Unauthorized" ELSE "allow"

\* a RolesGuard that wants every declared role
RolesGuard_every(user, requiredRoles) ==
  IF requiredRoles = noRoles THEN TRUE
  ELSE \A i \in 1..Len(requiredRoles) : includes(user.roles, requiredRoles[i])

\* RolesGuard.canActivate: true when no roles are declared, else
\* requiredRoles.some((role) => user.roles.includes(role))
RolesGuard(user, requiredRoles) ==
  IF requiredRoles = noRoles THEN TRUE
  ELSE \E i \in 1..Len(requiredRoles) : includes(user.roles, requiredRoles[i])

\* a PrivilegeGuard that always checks the user's own roles
rolesToCheck_own(user, requiredRoles) == user.roles

\* PrivilegeGuard: const rolesToCheck = requiredRoles || user.roles
rolesToCheck(user, requiredRoles) ==
  IF requiredRoles # noRoles THEN requiredRoles ELSE user.roles

\* a PrivilegeGuard that looks up every role it checks
holdsRole_any(user, role) == role \in Role

\* PrivilegeGuard: if (user.roles.includes(role)) { ...lookup... }
holdsRole(user, role) == includes(user.roles, role)

\* a PrivilegeGuard without escalation
grants_exact(userPrivilege, requiredPrivilege) ==
  userPrivilege = requiredPrivilege

\* PrivilegeGuard: userPrivilege === requiredPrivilege, or EDITOR where
\* VIEWER is required
grants(userPrivilege, requiredPrivilege) ==
  \/ userPrivilege = requiredPrivilege
  \/ requiredPrivilege = "VIEWER" /\ userPrivilege = "EDITOR"

RECURSIVE checkRoles(_, _, _, _, _, _)
\* PrivilegeGuard: the loop over rolesToCheck, from entry i on; answers[role]
\* is what getUserPrivilegeForRole returns for role ("StoreError" when the
\* query is rejected), lookups the roles looked up so far
checkRoles(user, toCheck, requiredPrivilege, answers, i, lookups) ==
  IF i > Len(toCheck)
  THEN [result |-> "Forbidden", lookups |-> lookups]
  ELSE IF holdsRole(user, toCheck[i])
  THEN LET userPrivilege == answers[toCheck[i]]
           seen == Append(lookups, toCheck[i])
       IN IF userPrivilege = "StoreError"
          THEN [result |-> "StoreError", lookups |-> seen]
          ELSE IF grants(userPrivilege, requiredPrivilege)
          THEN [result |-> "allow", lookups |-> seen]
          ELSE checkRoles(user, toCheck, requiredPrivilege, answers, i + 1,
                          seen)
  ELSE checkRoles(user, toCheck, requiredPrivilege, answers, i + 1, lookups)

\* PrivilegeGuard.canActivate
PrivilegeGuard(user, requiredRoles, requiredPrivilege, answers) ==
  IF requiredPrivilege = undefined
  THEN [result |-> "allow", lookups |-> <<>>]
  ELSE IF user = nullUser
  THEN [result |-> "Forbidden", lookups |-> <<>>]
  ELSE IF Len(rolesToCheck(user, requiredRoles)) = 0
  THEN [result |-> "Forbidden", lookups |-> <<>>]
  ELSE checkRoles(user, rolesToCheck(user, requiredRoles), requiredPrivilege,
                  answers, 1, <<>>)

(***************************************************************************)
(* JwtAuthMiddleware.                                                      *)
(***************************************************************************)
\* what a request can carry in its Authorization header
Headers ==
  {"none", "notBearer", "expired", "malformed", "badSignature", "valid"}

\* a verify that reports an expired token as any other invalid token
verify_noExpiry(header) ==
  CASE header \in {"expired", "malformed", "badSignature"} ->
         "JsonWebTokenError"
    [] header = "valid" -> "decoded"

\* jwt.verify(token, secret): the error it throws, or "decoded"
verify(header) ==
  CASE header = "expired" -> "TokenExpiredError"
    [] header \in {"malformed", "badSignature"} -> "JsonWebTokenError"
    [] header = "valid" -> "decoded"

\* a middleware that trusts the roles embedded in the token
attached_snapshot(decoded, user) == [user EXCEPT !.roles = decoded.roles]

\* the user the middleware attaches, given the decoded payload and the row
\* getUserById returned
attached(decoded, user) == user

\* a middleware that attaches the identity of the token payload without
\* reading the users table
use_trusting(header, decoded, found, storeError) ==
  IF header \in {"none", "notBearer"}
  THEN [next |-> TRUE, user |-> nullUser, status |-> "pending",
        message |-> ""]
  ELSE IF verify(header) = "TokenExpiredError"
  THEN [next |-> FALSE, user |-> nullUser, status |-> "Unauthorized",
        message |-> "Token expired"]
  ELSE IF verify(header) = "JsonWebTokenError"
  THEN [next |-> FALSE, user |-> nullUser, status |-> "Unauthorized",
        message |-> "Invalid token"]
  ELSE [next |-> TRUE,
        user |-> [userId |-> decoded.userId, name |-> "A", email |-> "a@x.com",
                  password |-> "p", roles |-> decoded.roles],
        status |-> "pending", message |-> ""]

\* JwtAuthMiddleware.use: found is what getUserById(decoded.userId) returns
\* ("StoreError" is modelled by storeError); the result says whether next()
\* is called, the user attached and the exception thrown
use(header, decoded, found, storeError) ==
  IF header \in {"none", "notBearer"}
  THEN [next |-> TRUE, user |-> nullUser, status |-> "pending",
        message |-> ""]
  ELSE IF verify(header) = "TokenExpiredError"
  THEN [next |-> FALSE, user |-> nullUser, status |-> "Unauthorized",
        message |-> "Token expired"]
  ELSE IF verify(header) = "JsonWebTokenError"
  THEN [next |-> FALSE, user |-> nullUser, status |-> "Unauthorized",
        message |-> "Invalid token"]
  ELSE IF storeError \/ found = nullUser
  THEN [next |-> FALSE, user |-> nullUser, status |-> "Unauthorized",
        message |-> "Authentication failed"]
  ELSE [next |-> TRUE, user |-> attached(decoded, found), status |-> "pending",
        message |-> ""]

(***************************************************************************)
(* The request pipeline: JwtAuthMiddleware on every route, then the guards *)
(* of the handler in the order @UseGuards lists them, then the handler.    *)
(* One request is handled at a time.                                       *)
(***************************************************************************)
\* the admin operations of AuthController that write to the store
AdminHandlers == {"createUser", "updateUser", "deleteUser"}

\* a handler whose @Roles / @RequirePrivilege arguments the request names
Handlers == AdminHandlers \cup {"protected"}

\* the guards listed with PrivilegeGuard before RolesGuard
UseGuards_swapped(handler) == <<"AuthGuard", "PrivilegeGuard", "RolesGuard">>

\* @UseGuards(AuthGuard, RolesGuard, PrivilegeGuard)
UseGuards(handler) == <<"AuthGuard", "RolesGuard", "PrivilegeGuard">>

\* @Roles(Role.ADMIN) on the admin operations
Roles(handler, declared) ==
  IF handler \in AdminHandlers THEN <<"ADMIN">> ELSE declared

\* admin operations that require VIEWER only
RequirePrivilege_viewer(handler, declared) ==
  IF handler \in AdminHandlers THEN "VIEWER" ELSE declared

\* @RequirePrivilege(Privilege.EDITOR) on the admin operations
RequirePrivilege(handler, declared) ==
  IF handler \in AdminHandlers THEN "EDITOR" ELSE declared

\* @Roles(...) arguments of the protected handler (noRoles: no @Roles)
DeclaredRoles ==
  {noRoles, <<"ADMIN">>, <<"FINANCE">>, <<"ADMIN", "FINANCE">>}

\* @RequirePrivilege(...) argument (undefined: no @RequirePrivilege)
DeclaredPrivileges == {undefined, "EDITOR", "VIEWER"}

\* a request arrives
Receive(header, userId, handler, declaredRoles, declaredPrivilege) ==
  /\ req.pc = "idle"
  /\ IF header = "valid" THEN userId \in 1..(nextId - 1) ELSE userId = 0
  /\ handler = "createUser" => nextId <= MaxUsers
  /\ req' = [NoRequest EXCEPT
               !.pc = "JwtAuthMiddleware",
               !.header = header,
               !.userId = userId,
               !.handler = handler,
               !.requiredRoles = Roles(handler, declaredRoles),
               !.requiredPrivilege = RequirePrivilege(handler,
                                                      declaredPrivilege)]
  /\ UNCHANGED <<storeVars, last, calls, tables, mig, dataset>>

\* the response is sent
Respond ==
  /\ req.pc = "done"
  /\ req' = NoRequest
  /\ UNCHANGED <<storeVars, last, calls, tables, mig, dataset>>

\* the request after a guard named guard returned result
afterGuard(r, guard, result, message) ==
  IF result = "allow"
  THEN [r EXCEPT !.pc = IF r.gi = Len(UseGuards(r.handler)) THEN "handler"
                        ELSE "guards",
                 !.gi = @ + 1,
                 !.trace = Append(@, guard)]
  ELSE [r EXCEPT !.pc = "done", !.status = result, !.message = message,
                 !.by = guard, !.trace = Append(@, guard)]

\* the outcome of the same request with another role snapshot in its token
twinAfter(status, result) ==
  IF status # "pending" THEN status
  ELSE IF result = "allow" THEN "pending" ELSE result

JwtAuthMiddleware_use(decodedRoles, twinRoles, storeError) ==
  /\ req.pc = "JwtAuthMiddleware"
  /\ req.header # "valid" => (~storeError /\ decodedRoles = <<>>
                               /\ twinRoles = <<>>)
  /\ LET found == getUserById(Store, req.userId)
         r == use(req.header, [userId |-> req.userId, roles |-> decodedRoles],
                  found, storeError)
         t == use(req.header, [userId |-> req.userId, roles |-> twinRoles],
                  found, storeError)
     IN req' = [req EXCEPT
                  !.pc = IF r.next THEN "guards" ELSE "done",
                  !.gi = 1,
                  !.user = r.user,
                  !.status = r.status,
                  !.message = r.message,
                  !.by = IF r.next THEN "" ELSE "JwtAuthMiddleware",
                  !.trace = Append(@, "JwtAuthMiddleware"),
                  !.storeError = IF storeError THEN "getUserById" ELSE @,
                  !.twinUser = t.user,
                  !.twinStatus = t.status]
  /\ UNCHANGED <<storeVars, last, calls, tables, mig, dataset>>

AuthGuard_canActivate ==
  /\ req.pc = "guards"
  /\ UseGuards(req.handler)[req.gi] = "AuthGuard"
  /\ req' = [afterGuard(req, "AuthGuard", AuthGuard(req.user),
                        "User is not authenticated") EXCEPT
               !.twinStatus = twinAfter(@, AuthGuard(req.twinUser))]
  /\ UNCHANGED <<storeVars, last, calls, tables, mig, dataset>>

\* a guard that returns false makes the framework answer Forbidden
denied(allowed) == IF allowed THEN "allow" ELSE "Forbidden"

RolesGuard_canActivate ==
  /\ req.pc = "guards"
  /\ UseGuards(req.handler)[req.gi] = "RolesGuard"
  /\ req' = [afterGuard(req, "RolesGuard",
                        denied(RolesGuard(req.user, req.requiredRoles)),
                        "Forbidden resource") EXCEPT
               !.twinStatus =
                 twinAfter(@, denied(RolesGuard(req.twinUser,
                                                req.requiredRoles)))]
  /\ UNCHANGED <<storeVars, last, calls, tables, mig, dataset>>

\* what the live lookups of a request can return: a row of the role table
\* (null when there is none), or a store error for the role errorRole
Answers(userId, errorRole) ==
  {a \in [Role -> Privilege \cup {null, "StoreError"}] :
     \A r \in Role :
       IF r = errorRole THEN a[r] = "StoreError"
       ELSE a[r] \in getUserPrivilegeForRole(Store, userId, r)}

PrivilegeGuard_canActivate(errorRole) ==
  /\ req.pc = "guards"
  /\ UseGuards(req.handler)[req.gi] = "PrivilegeGuard"
  /\ \E answers \in Answers(req.user.userId, errorRole) :
       LET g == PrivilegeGuard(req.user, req.requiredRoles,
                               req.requiredPrivilege, answers)
           t == PrivilegeGuard(req.twinUser, req.requiredRoles,
                               req.requiredPrivilege, answers)
       IN /\ errorRole # "none" => g.result = "StoreError"
          /\ req' = [afterGuard(req, "PrivilegeGuard", g.result,
                                IF g.result = "StoreError"
                                THEN "Database connection failed"
                                ELSE "User does not have required privilege")
                     EXCEPT
                       !.lookups = g.lookups,
                       !.storeError = IF g.result = "StoreError"
                                      THEN "getUserPrivilegeForRole" ELSE @,
                       !.twinStatus = twinAfter(@, t.result)]
  /\ UNCHANGED <<storeVars, last, calls, tables, mig, dataset>>

\* the request after its handler returned
handled(r) ==
  [r EXCEPT !.pc = "done", !.status = "handled", !.by = "handler",
            !.trace = Append(@, "handler"),
            !.twinStatus = twinAfter(@, "handled")]

\* every write of the handler's operation succeeds
NoError == 2 * MaxRoleList + 1

\* CreateUserDto bodies of the admin requests
AdminDtos ==
  UNION {{[name |-> "A", email |-> "a@x.com", password |-> "p",
           roles |-> roles, privileges |-> p] :
            p \in {q \in PrivilegeMaps(roles) :
                     \A r \in RoleSet(roles) : q[r] \in Privilege}} :
         roles \in (DeclaredRoles \ {noRoles}) \cup {<<>>}}

\* AuthController.createUser
Handler_createUser ==
  /\ req.pc = "handler"
  /\ req.handler = "createUser"
  /\ \E createUserDto \in AdminDtos :
       LET r == createUserByAdmin(Store, nextId, createUserDto, NoError)
       IN /\ WithinRows(r.st)
          /\ users' = r.st.users
          /\ roleTab' = r.st.tab
          /\ nextId' = IF r.called THEN nextId + 1 ELSE nextId
          /\ last' = Called("createUserByAdmin", nextId, r.outcome)
  /\ req' = handled(req)
  /\ UNCHANGED <<calls, tables, mig, dataset>>

\* AuthController.updateUser
Handler_updateUser ==
  /\ req.pc = "handler"
  /\ req.handler = "updateUser"
  /\ \E userId \in UserIds, dto \in AdminDtos :
       LET updateUserDto == [dto EXCEPT !.name = undefined,
                                        !.email = undefined,
                                        !.password = undefined]
           r == updateUserByAdmin(Store, userId, updateUserDto, NoError)
       IN /\ WithinRows(r.st)
          /\ users' = r.st.users
          /\ roleTab' = r.st.tab
          /\ nextId' = nextId
          /\ last' = Called("updateUserByAdmin", userId, r.outcome)
  /\ req' = handled(req)
  /\ UNCHANGED <<calls, tables, mig, dataset>>

\* AuthController.deleteUser
Handler_deleteUser ==
  /\ req.pc = "handler"
  /\ req.handler = "deleteUser"
  /\ \E userId \in UserIds :
       LET r == deleteUserByAdmin(Store, userId, NoError)
       IN /\ users' = r.st.users
          /\ roleTab' = r.st.tab
          /\ nextId' = nextId
          /\ last' = Called("deleteUserByAdmin", userId, r.outcome)
  /\ req' = handled(req)
  /\ UNCHANGED <<calls, tables, mig, dataset>>

\* a handler that writes nothing
Handler_protected ==
  /\ req.pc = "handler"
  /\ req.handler = "protected"
  /\ req' = handled(req)
  /\ UNCHANGED <<storeVars, last, calls, tables, mig, dataset>>

(***************************************************************************)
(* SpecAuthz: requests through the pipeline; the store changes only by the *)
(* admin handlers.                                                         *)
(***************************************************************************)
ReceiveAdmin ==
  \E header \in Headers, userId \in {0} \cup UserIds, handler \in AdminHandlers :
    Receive(header, userId, handler, noRoles, undefined)

ReceiveProtected ==
  \E header \in Headers, userId \in {0} \cup UserIds,
     declaredRoles \in DeclaredRoles,
     declaredPrivilege \in DeclaredPrivileges :
    Receive(header, userId, "protected", declaredRoles, declaredPrivilege)

\* role snapshots embedded in tokens
TokenSnapshots == {<<>>, <<"ADMIN">>, <<"FINANCE">>}

\* the token is verified; a valid token is verified together with a twin that
\* differs from it in the embedded role snapshot only
VerifyToken ==
  \E decodedRoles \in TokenSnapshots, twinRoles \in TokenSnapshots,
     storeError \in BOOLEAN :
    /\ req.header = "valid" => decodedRoles # twinRoles
    /\ JwtAuthMiddleware_use(decodedRoles, twinRoles, storeError)

CheckPrivilege ==
  \E errorRole \in InputRoles \cup {"none"} :
    PrivilegeGuard_canActivate(errorRole)

NextAuthz ==
  \/ ReceiveAdmin
  \/ ReceiveProtected
  \/ VerifyToken
  \/ AuthGuard_canActivate
  \/ RolesGuard_canActivate
  \/ CheckPrivilege
  \/ Handler_createUser
  \/ Handler_updateUser
  \/ Handler_deleteUser
  \/ Handler_protected
  \/ Respond

SpecAuthz == Init /\ [][NextAuthz]_vars

(***************************************************************************)
(* Properties of the pipeline (SpecAuthz).                                 *)
(***************************************************************************)
\* the component that acted last on the request
LastActed == IF req.trace = <<>> THEN "" ELSE req.trace[Len(req.trace)]

\* the PBAC gate has just decided
PbacActed == LastActed = "PrivilegeGuard"
PbacAllowed == PbacActed /\ req.pc = "handler"
PbacForbidden ==
  PbacActed /\ req.pc = "done" /\ req.status = "Forbidden"
            /\ req.by = "PrivilegeGuard"

\* the candidate roles of the PBAC gate
Candidates ==
  IF req.requiredRoles # noRoles THEN RoleSet(req.requiredRoles)
  ELSE RoleSet(req.user.roles)

\* the privileges stored for the identity of the request in the table of R
LivePrivileges(R) == getUserPrivilegeForRole(Store, req.user.userId, R)

\* the identity holds R and its live privilege on R meets the requirement P
Satisfies(R, P) ==
  /\ R \in RoleSet(req.user.roles)
  /\ \/ P \in LivePrivileges(R)
     \/ P = "VIEWER" /\ "EDITOR" \in LivePrivileges(R)

\* C3: with a required privilege P and no store error the PBAC gate allows
\* exactly when some candidate role (the declared roles, else the identity's
\* own) is held by the identity with live privilege P, or EDITOR when P is
\* VIEWER; otherwise it denies with Forbidden; with no required privilege it
\* allows without a lookup.
C3_PbacDecision ==
  (PbacActed /\ req.storeError = "none") =>
    IF req.requiredPrivilege = undefined
    THEN PbacAllowed /\ req.lookups = <<>>
    ELSE /\ PbacAllowed <=>
              \E R \in Candidates : Satisfies(R, req.requiredPrivilege)
         /\ PbacAllowed \/ PbacForbidden

\* C3 witness: the gate denied although the identity holds a satisfying
\* privilege on a role outside the declared roles
C3_Witness ==
  /\ PbacForbidden
  /\ req.requiredRoles # noRoles
  /\ \E R \in Role \ Candidates : Satisfies(R, req.requiredPrivilege)

\* C4: live EDITOR on a held candidate role R passes a check requiring
\* VIEWER; live VIEWER on R, the only candidate, fails a check requiring
\* EDITOR with Forbidden.
C4_EscalationLaw ==
  (PbacActed /\ req.storeError = "none") =>
    \A R \in Role :
      /\ (/\ req.requiredPrivilege = "VIEWER"
          /\ R \in Candidates
          /\ R \in RoleSet(req.user.roles)
          /\ LivePrivileges(R) = {"EDITOR"}) => PbacAllowed
      /\ (/\ req.requiredPrivilege = "EDITOR"
          /\ Candidates = {R}
          /\ LivePrivileges(R) = {"VIEWER"}) => PbacForbidden

\* C4 witness: a VIEWER requirement passed on live EDITOR alone
C4_Witness ==
  /\ PbacAllowed
  /\ req.requiredPrivilege = "VIEWER"
  /\ \E R \in Candidates : LivePrivileges(R) = {"EDITOR"}
  /\ \A R \in Candidates : "VIEWER" \notin LivePrivileges(R)

\* the RBAC gate has just decided
RbacActed == LastActed = "RolesGuard"
RbacAllowed == RbacActed /\ req.pc = "guards"

\* C5: the RBAC gate allows when no roles are declared, else exactly when the
\* identity's roles and the declared roles intersect; its deny is a false
\* return (answered as "Forbidden resource"), not an exception of its own.
C5_RbacDecision ==
  RbacActed =>
    /\ RbacAllowed <=>
         \/ req.requiredRoles = noRoles
         \/ RoleSet(req.user.roles) \cap RoleSet(req.requiredRoles) # {}
    /\ ~RbacAllowed =>
         /\ req.pc = "done"
         /\ req.status = "Forbidden"
         /\ req.message = "Forbidden resource"

\* C5 witness: an identity with no roles denied by the RBAC gate
C5_Witness ==
  /\ RbacActed
  /\ ~RbacAllowed
  /\ req.user # nullUser
  /\ req.user.roles = <<>>

\* the order of a request through a handler with the three guards
FullTrace ==
  <<"JwtAuthMiddleware", "AuthGuard", "RolesGuard", "PrivilegeGuard",
    "handler">>

InTrace(c) == \E i \in 1..Len(req.trace) : req.trace[i] = c

\* C6: the gates run in the order authentication, RBAC, PBAC and a denial
\* ends the evaluation: no identity means Unauthorized before any role check,
\* an RBAC denial means no privilege lookup, and the handler runs only after
\* the three gates.
C6_GateOrder ==
  /\ Len(req.trace) <= Len(FullTrace)
  /\ req.trace = SubSeq(FullTrace, 1, Len(req.trace))
  /\ (InTrace("AuthGuard") /\ req.user = nullUser) =>
       /\ req.status = "Unauthorized"
       /\ req.by = "AuthGuard"
       /\ ~InTrace("RolesGuard")
       /\ req.lookups = <<>>
  /\ req.by = "RolesGuard" =>
       /\ req.lookups = <<>>
       /\ req.storeError = "none"
       /\ ~InTrace("PrivilegeGuard")
  /\ req.status \in {"Unauthorized", "Forbidden", "StoreError"} =>
       /\ req.pc = "done"
       /\ LastActed = req.by
  /\ InTrace("handler") => req.trace = FullTrace

\* C6 witness: a request denied by the RBAC gate
C6_Witness ==
  /\ req.by = "RolesGuard"
  /\ req.status = "Forbidden"
  /\ req.requiredPrivilege # undefined

\* C7: a request and its twin (same userId, another embedded role snapshot,
\* same store) get the same identity attached and the same decision.
C7_SnapshotIgnored ==
  /\ req.twinUser = req.user
  /\ req.twinStatus = req.status

\* C7 witness: a request with a valid token was decided by the PBAC gate
C7_Witness ==
  /\ req.header = "valid"
  /\ PbacForbidden
  /\ req.twinStatus = "Forbidden"

\* the caller's current record has ADMIN and its live ADMIN privilege is EDITOR
AdminEditor(userId) ==
  /\ userId \in UserIds
  /\ users[userId] # nullUser
  /\ includes(users[userId].roles, "ADMIN")
  /\ getUserPrivilegeForRole(Store, userId, "ADMIN") = {"EDITOR"}

\* a caller with ADMIN and live privilege VIEWER was decided by the PBAC gate
ViewerAdminDecided ==
  /\ req.handler \in AdminHandlers
  /\ PbacActed
  /\ req.storeError = "none"
  /\ includes(req.user.roles, "ADMIN")
  /\ LivePrivileges("ADMIN") = {"VIEWER"}

\* C8: the admin handlers run only for a caller whose record has ADMIN with
\* live privilege EDITOR; an ADMIN with live VIEWER is denied with Forbidden;
\* a step that denies a request, and any step that is not an admin handler,
\* leaves the users table and the role tables as they are.
C8_AdminOnlyEditor ==
  [][/\ (req.pc = "handler" /\ req.handler \in AdminHandlers) =>
          AdminEditor(req.user.userId)
     /\ (users' # users \/ roleTab' # roleTab) =>
          (req.pc = "handler" /\ req.handler \in AdminHandlers)
     /\ req'.status \in {"Unauthorized", "Forbidden"} =>
          (users' = users /\ roleTab' = roleTab)
     /\ ViewerAdminDecided' => PbacForbidden']_vars

\* C8 witness: an ADMIN with live privilege VIEWER denied on an admin handler
C8_Witness == ViewerAdminDecided /\ PbacForbidden

\* the middleware alone has acted on the request
VerifiedOnly == req.trace = <<"JwtAuthMiddleware">>

RejectedByMiddleware(message) ==
  /\ req.pc = "done"
  /\ req.status = "Unauthorized"
  /\ req.message = message
  /\ req.by = "JwtAuthMiddleware"

\* C9: no or a non-Bearer header proceeds with no identity; an expired token
\* is Unauthorized "Token expired", a malformed or wrongly signed one
\* Unauthorized "Invalid token", a verified one without a users row
\* Unauthorized; a request the middleware rejected reaches no gate or handler.
C9_TokenVerification ==
  /\ VerifiedOnly =>
       /\ req.header \in {"none", "notBearer"} =>
            (req.pc = "guards" /\ req.user = nullUser
             /\ req.status = "pending")
       /\ req.header = "expired" => RejectedByMiddleware("Token expired")
       /\ req.header \in {"malformed", "badSignature"} =>
            RejectedByMiddleware("Invalid token")
       /\ (req.header = "valid"
           /\ getUserById(Store, req.userId) = nullUser) =>
            RejectedByMiddleware("Authentication failed")
  /\ req.by = "JwtAuthMiddleware" =>
       /\ VerifiedOnly
       /\ req.pc = "done"
       /\ req.status = "Unauthorized"
  /\ (req.trace # <<>> /\ req.header \in Headers \ {"none", "notBearer", "valid"})
       => req.by = "JwtAuthMiddleware"

\* C9 witness: a verified token of a user whose row is gone was rejected
C9_Witness ==
  /\ req.header = "valid"
  /\ req.storeError = "none"
  /\ getUserById(Store, req.userId) = nullUser
  /\ RejectedByMiddleware("Authentication failed")

\* C10: a store error raised by the user lookup of the middleware or by the
\* privilege lookup of the PBAC gate reaches the caller as a store failure.
C10_StoreErrorPropagates ==
  req.storeError # "none" => req.status = "StoreError"

\* C17: a delete-user request whose target is the authenticated caller is
\* refused before deleteUserByAdmin runs: the handler step of a caller's
\* delete-user request leaves the caller's own user record and role rows as
\* they were.
C17_SelfDeletionRefused ==
  [][(/\ req.pc = "handler"
      /\ req.handler = "deleteUser"
      /\ req.user # nullUser
      /\ req'.pc = "done") =>
       /\ users'[req.user.userId] = users[req.user.userId]
       /\ \A t \in RoleTables :
            roleTab'[t][req.user.userId] = roleTab[t][req.user.userId]]_vars

(***************************************************************************)
(* AuthService: register and login.                                        *)
(***************************************************************************)
\* the privileges object register builds: { [Role.LEARNER]: Privilege.VIEWER }
registerPrivileges ==
  [r \in Role |-> IF r = "LEARNER" THEN "VIEWER" ELSE undefined]

\* the userData register hands to createUser
registerUserData(registerDto) ==
  [name |-> registerDto.name, email |-> registerDto.email,
   password |-> registerDto.password, roles |-> <<"LEARNER">>,
   privileges |-> registerPrivileges]

\* a register that grants EDITOR
register_editor(st, userId, registerDto, failAt) ==
  IF UsersByEmail(st, registerDto.email) # {}
  THEN [st |-> st, outcome |-> "Conflict", called |-> FALSE]
  ELSE LET userData == [registerUserData(registerDto) EXCEPT
                          !.privileges = [r \in Role |-> "EDITOR"]]
           r == Run(st, createUserWrites(userId, userData), failAt)
       IN [st |-> r.st, outcome |-> Outcome(r), called |-> TRUE]

\* AuthService.register
register(st, userId, registerDto, failAt) ==
  IF UsersByEmail(st, registerDto.email) # {}
  THEN [st |-> st, outcome |-> "Conflict", called |-> FALSE]
  ELSE LET r == Run(st, createUserWrites(userId,
                                         registerUserData(registerDto)),
                    failAt)
       IN [st |-> r.st, outcome |-> Outcome(r), called |-> TRUE]

\* getUserByEmailWithPrivileges: the users rows a lookup by email can return
\* (nullUser when none matches)
getUserByEmailWithPrivileges(st, email) ==
  IF UsersByEmail(st, email) = {} THEN {nullUser}
  ELSE {st.users[id] : id \in UsersByEmail(st, email)}

\* AuthService.login, given the row the lookup returned
login(user, loginDto) ==
  IF user = nullUser THEN "Unauthorized"
  ELSE IF user.password # loginDto.password THEN "Unauthorized"
  ELSE "ok"

(***************************************************************************)
(* SpecSvc: the AuthService operations called one after the other, a store *)
(* error possible at every write.                                          *)
(***************************************************************************)
Emails == {"a@x.com", adminUser.email}

Passwords == {"p", adminUser.password}

\* no body
NoDto == [name |-> undefined, email |-> undefined, password |-> undefined,
          roles |-> noRoles, privileges |-> noPrivileges]

RegisterDtos == {[NoDto EXCEPT !.name = "A", !.email = e, !.password = "p"] :
                   e \in Emails}

LoginDtos ==
  {[NoDto EXCEPT !.email = e, !.password = pw] : e \in Emails, pw \in Passwords}

\* role arrays of the admin bodies
SvcRoles == {<<>>, <<"ADMIN">>, <<"ADMIN", "FINANCE">>}

\* CreateUserDto bodies, a privilege possibly missing
CreateUserDtos ==
  UNION {{[name |-> "A", email |-> e, password |-> "p", roles |-> roles,
           privileges |-> p] : e \in Emails, p \in PrivilegeMaps(roles)} :
         roles \in SvcRoles}

\* bodies of the update request that name no role change or an invalid one:
\* every property is optional
UpdateUserDtos ==
  {[NoDto EXCEPT !.name = n, !.email = e, !.password = pw] :
     n \in {undefined, "B"}, e \in {undefined} \cup Emails,
     pw \in {undefined, "", "q"}}
  \cup {[NoDto EXCEPT !.roles = <<"ADMIN", "FINANCE">>,
                      !.privileges = [r \in Role |-> IF r = "ADMIN"
                                                     THEN "EDITOR"
                                                     ELSE undefined]],
        [NoDto EXCEPT !.roles = <<"ADMIN">>]}

\* the users the calls address: the ones created (the seeded admin is left as
\* it is)
SvcUserIds == DalUserIds

\* the call that returned last, with its body
Served(op, userId, outcome, dto) ==
  [op |-> op, userId |-> userId, outcome |-> outcome, dto |-> dto]

\* the same, with the role a BadRequest names
ServedNaming(op, userId, outcome, dto, named) ==
  [op |-> op, userId |-> userId, outcome |-> outcome, dto |-> dto,
   named |-> named]

SvcRegister ==
  \E registerDto \in RegisterDtos, failAt \in FailPoints :
    /\ IF UsersByEmail(Store, registerDto.email) = {}
       THEN nextId <= MaxUsers /\ failAt <= 2
       ELSE failAt = 0
    /\ LET r == register(Store, nextId, registerDto, failAt)
       IN /\ users' = r.st.users
          /\ roleTab' = r.st.tab
          /\ nextId' = IF r.called THEN nextId + 1 ELSE nextId
          /\ last' = Served("register", nextId, r.outcome, registerDto)
    /\ UNCHANGED <<req, calls, tables, mig, dataset>>

\* createUserByAdmin called with createUserDto
CallCreateUserByAdmin(createUserDto, failAt) ==
  /\ LET r == IF nextId <= MaxUsers
              THEN createUserByAdmin(Store, nextId, createUserDto, failAt)
              ELSE createUserByAdmin(Store, 0, createUserDto, 0)
     IN /\ IF r.called
           THEN nextId <= MaxUsers /\ failAt <= Len(createUserDto.roles) + 1
           ELSE failAt = 0
        /\ users' = r.st.users
        /\ roleTab' = r.st.tab
        /\ nextId' = IF r.called THEN nextId + 1 ELSE nextId
        /\ last' = ServedNaming("createUserByAdmin", nextId, r.outcome,
                                createUserDto, r.named)
  /\ UNCHANGED <<req, calls, tables, mig, dataset>>

\* updateUserByAdmin called with userId and updateUserDto
CallUpdateUserByAdmin(userId, updateUserDto, failAt) ==
  /\ LET r == updateUserByAdmin(Store, userId, updateUserDto, failAt)
     IN /\ WithinRows(r.st)
        /\ IF r.outcome \in {"BadRequest", "Conflict"} THEN failAt = 0
           ELSE failAt <= Len(updateUserByAdminWrites(
                                getUserById(Store, userId), userId,
                                updateUserDto))
        /\ users' = r.st.users
        /\ roleTab' = r.st.tab
        /\ nextId' = nextId
        /\ last' = Served("updateUserByAdmin", userId, r.outcome,
                          updateUserDto)
  /\ UNCHANGED <<req, calls, tables, mig, dataset>>

\* deleteUserByAdmin called with userId
CallDeleteUserByAdmin(userId, failAt) ==
  /\ LET r == deleteUserByAdmin(Store, userId, failAt)
     IN /\ IF r.outcome = "BadRequest" THEN failAt = 0
           ELSE failAt <= Len(getUserById(Store, userId).roles) + 1
        /\ users' = r.st.users
        /\ roleTab' = r.st.tab
        /\ nextId' = nextId
        /\ last' = Served("deleteUserByAdmin", userId, r.outcome, NoDto)
  /\ UNCHANGED <<req, calls, tables, mig, dataset>>

SvcCreateUserByAdmin ==
  \E createUserDto \in CreateUserDtos, failAt \in FailPoints :
    CallCreateUserByAdmin(createUserDto, failAt)

SvcUpdateUserByAdmin ==
  \E userId \in SvcUserIds, updateUserDto \in UpdateUserDtos,
     failAt \in FailPoints :
    CallUpdateUserByAdmin(userId, updateUserDto, failAt)

SvcDeleteUserByAdmin ==
  \E userId \in SvcUserIds, failAt \in FailPoints :
    CallDeleteUserByAdmin(userId, failAt)

SvcLogin ==
  \E loginDto \in LoginDtos :
    \E user \in getUserByEmailWithPrivileges(Store, loginDto.email) :
      /\ last' = Served("login", user.userId, login(user, loginDto), loginDto)
      /\ UNCHANGED <<storeVars, req, calls, tables, mig, dataset>>

NextSvc ==
  \/ SvcRegister
  \/ SvcCreateUserByAdmin
  \/ SvcUpdateUserByAdmin
  \/ SvcDeleteUserByAdmin
  \/ SvcLogin

SpecSvc == Init /\ [][NextSvc]_vars

(***************************************************************************)
(* Properties of the AuthService operations (SpecSvc).                     *)
(***************************************************************************)
\* the step is the return of a call of op
Returned(op) == last'.op = op /\ last' # last

\* the users table and the role tables are left as they are
StoreUnchanged == users' = users /\ roleTab' = roleTab

\* nothing of users other than id changes
OthersUnchanged(id) ==
  \A other \in UserIds \ {id} :
    /\ users'[other] = users[other]
    /\ \A t \in RoleTables : roleTab'[t][other] = roleTab[t][other]

\* C11: register fails with Conflict and writes nothing when the email is in
\* use; when it succeeds it has created one user with roles [LEARNER], one
\* row (VIEWER) in the learner table and no row in another role table, so a
\* register of the same email right after a successful one gets Conflict.
C11_Register ==
  [][Returned("register") =>
       LET dto == last'.dto
           id == last'.userId
           inUse == UsersByEmail(Store, dto.email) # {}
       IN /\ inUse <=> last'.outcome = "Conflict"
          /\ last'.outcome = "Conflict" => StoreUnchanged
          /\ last'.outcome = "ok" =>
               /\ users[id] = nullUser
               /\ users'[id] = [userId |-> id, name |-> dto.name,
                                email |-> dto.email,
                                password |-> dto.password,
                                roles |-> <<"LEARNER">>]
               /\ roleTab'["learner"][id] = <<"VIEWER">>
               /\ \A t \in RoleTables \ {"learner"} : roleTab'[t][id] = <<>>
               /\ OthersUnchanged(id)
          /\ (last.op = "register" /\ last.outcome = "ok"
              /\ last.dto.email = dto.email) => last'.outcome = "Conflict"]_vars

\* C11 witness: a register refused because an earlier register took the email
C11_Witness ==
  /\ last.op = "register"
  /\ last.outcome = "Conflict"
  /\ \E id \in UsersByEmail(Store, last.dto.email) :
       /\ users[id].roles = <<"LEARNER">>
       /\ roleTab["learner"][id] = <<"VIEWER">>

\* C13: createUserByAdmin fails with Conflict when the email is in use and
\* with BadRequest naming the role when a role of dto.roles has no privilege
\* in dto.privileges; neither failure writes anything; on success every role
\* of dto.roles has a row with the privilege given for it.
C13_CreateUserByAdmin ==
  [][Returned("createUserByAdmin") =>
       LET dto == last'.dto
           id == last'.userId
           inUse == UsersByEmail(Store, dto.email) # {}
           without == {dto.roles[i] : i \in
                         {j \in 1..Len(dto.roles) :
                            dto.privileges[dto.roles[j]] \notin Privilege}}
       IN /\ inUse => last'.outcome = "Conflict"
          /\ (~inUse /\ without # {}) =>
               (last'.outcome = "BadRequest" /\ last'.named \in without)
          /\ last'.outcome \in {"Conflict", "BadRequest"} =>
               (StoreUnchanged /\ (inUse \/ without # {}))
          /\ last'.outcome = "ok" =>
               /\ users[id] = nullUser
               /\ users'[id] = [userId |-> id, name |-> dto.name,
                                email |-> dto.email,
                                password |-> dto.password,
                                roles |-> dto.roles]
               /\ \A r \in Role :
                    roleTab'[getRoleTableName(r)][id] =
                      IF r \in RoleSet(dto.roles) THEN <<dto.privileges[r]>>
                      ELSE <<>>
               /\ OthersUnchanged(id)]_vars

\* C13 witness: roles [ADMIN, FINANCE] with a privilege for ADMIN only was
\* refused with BadRequest naming FINANCE
C13_Witness ==
  /\ last.op = "createUserByAdmin"
  /\ last.outcome = "BadRequest"
  /\ last.named = "FINANCE"
  /\ last.dto.roles = <<"ADMIN", "FINANCE">>
  /\ last.dto.privileges["ADMIN"] = "EDITOR"
  /\ users[last.userId] = nullUser

\* C14: updateUserByAdmin with an empty or absent dto.password leaves the
\* stored password of the user as it is while the supplied name and email
\* are written; the stored password changes only to a non-empty dto.password.
C14_EmptyPasswordKept ==
  [][Returned("updateUserByAdmin") =>
       LET dto == last'.dto
           id == last'.userId
       IN /\ dto.password \in {undefined, ""} =>
               users'[id].password = users[id].password
          /\ users'[id].password # users[id].password =>
               /\ dto.password \notin {undefined, ""}
               /\ users'[id].password = dto.password
          /\ (last'.outcome = "ok" /\ dto.password \in {undefined, ""}) =>
               /\ dto.name # undefined => users'[id].name = dto.name
               /\ dto.email # undefined => users'[id].email = dto.email
          /\ \A other \in UserIds \ {id} :
               users'[other].password = users[other].password]_vars

\* C14 witness: an update with password "" and a name went through, the name
\* is the new one and the password the one given at creation
C14_Witness ==
  /\ last.op = "updateUserByAdmin"
  /\ last.outcome = "ok"
  /\ last.dto.password = ""
  /\ last.dto.name = "B"
  /\ users[last.userId].name = "B"
  /\ users[last.userId].password = "p"

(***************************************************************************)
(* SpecUpd: updateUserByAdmin on every user, with bodies that change the   *)
(* email (the empty string included), between creations and deletions.     *)
(***************************************************************************)
UpdEmails == {"", "a@x.com", adminUser.email}

UpdDtos ==
  {[NoDto EXCEPT !.email = e] : e \in UpdEmails}
  \cup {[NoDto EXCEPT !.name = "B"],
        [NoDto EXCEPT !.roles = <<"ADMIN", "FINANCE">>,
                      !.privileges = [r \in Role |-> IF r = "ADMIN"
                                                     THEN "EDITOR"
                                                     ELSE undefined]]}

\* the store raises no error in these calls
NoStoreError == last'.outcome # "StoreError"

UpdCreateUserByAdmin ==
  \E failAt \in FailPoints :
    /\ CallCreateUserByAdmin([name |-> "A", email |-> "a@x.com",
                              password |-> "p", roles |-> <<>>,
                              privileges |-> [r \in Role |-> undefined]],
                             failAt)
    /\ NoStoreError

UpdUpdateUserByAdmin ==
  \E userId \in UserIds, updateUserDto \in UpdDtos, failAt \in FailPoints :
    /\ CallUpdateUserByAdmin(userId, updateUserDto, failAt)
    /\ NoStoreError

UpdDeleteUserByAdmin ==
  \E userId \in UserIds, failAt \in FailPoints :
    /\ CallDeleteUserByAdmin(userId, failAt)
    /\ NoStoreError

NextUpd ==
  \/ UpdCreateUserByAdmin
  \/ UpdUpdateUserByAdmin
  \/ UpdDeleteUserByAdmin

SpecUpd == Init /\ [][NextUpd]_vars

\* another user than id holds email
HeldByAnother(id, email) ==
  \E other \in UserIds \ {id} :
    users[other] # nullUser /\ users[other].email = email

\* C15: updateUserByAdmin fails with BadRequest when no user has the id, with
\* Conflict when dto.email differs from the user's email and another user
\* holds it (the user's own email never conflicts), with BadRequest when
\* roles and privileges are supplied and a role has no privilege; a call that
\* fails with one of these has changed no users row and no role row.
C15_UpdateUserByAdminErrors ==
  [][Returned("updateUserByAdmin") =>
       LET dto == last'.dto
           id == last'.userId
           exists == users[id] # nullUser
           taken == /\ dto.email # undefined
                    /\ dto.email # users[id].email
                    /\ HeldByAnother(id, dto.email)
           unprivileged ==
             /\ dto.roles # noRoles
             /\ dto.privileges # noPrivileges
             /\ \E i \in 1..Len(dto.roles) :
                  dto.privileges[dto.roles[i]] \notin Privilege
       IN /\ ~exists => last'.outcome = "BadRequest"
          /\ (exists /\ taken) => last'.outcome = "Conflict"
          /\ (exists /\ ~taken) => last'.outcome # "Conflict"
          /\ (exists /\ ~taken /\ unprivileged) =>
               last'.outcome = "BadRequest"
          /\ last'.outcome \in {"BadRequest", "Conflict"} =>
               StoreUnchanged]_vars

(***************************************************************************)
(* SpecDel: deleteUserByAdmin after creations and role updates, a store    *)
(* error possible at every write.                                          *)
(***************************************************************************)
\* the privileges object that gives every role EDITOR
AllEditor == [r \in Role |-> "EDITOR"]

DelCreateUserDtos ==
  {[name |-> "A", email |-> "a@x.com", password |-> "p", roles |-> roles,
    privileges |-> AllEditor] : roles \in SvcRoles}

DelUpdateUserDtos ==
  {[NoDto EXCEPT !.roles = roles, !.privileges = AllEditor] :
     roles \in SvcRoles}

DelCreateUserByAdmin ==
  \E createUserDto \in DelCreateUserDtos, failAt \in FailPoints :
    CallCreateUserByAdmin(createUserDto, failAt)

DelUpdateUserByAdmin ==
  \E userId \in SvcUserIds, updateUserDto \in DelUpdateUserDtos,
     failAt \in FailPoints :
    CallUpdateUserByAdmin(userId, updateUserDto, failAt)

DelDeleteUserByAdmin ==
  \E userId \in SvcUserIds, failAt \in FailPoints :
    CallDeleteUserByAdmin(userId, failAt)

NextDel ==
  \/ DelCreateUserByAdmin
  \/ DelUpdateUserByAdmin
  \/ DelDeleteUserByAdmin

SpecDel == Init /\ [][NextDel]_vars

\* C16: deleteUserByAdmin fails with BadRequest and changes nothing when no
\* user has the id; when it succeeds no row of the id is left in the users
\* table or in a role table, in whatever state earlier calls (failed ones
\* included) left the store.
C16_DeleteLeavesNoRow ==
  [][Returned("deleteUserByAdmin") =>
       LET id == last'.userId
       IN /\ users[id] = nullUser <=> last'.outcome = "BadRequest"
          /\ last'.outcome = "BadRequest" => StoreUnchanged
          /\ last'.outcome = "ok" =>
               /\ users'[id] = nullUser
               /\ \A t \in RoleTables : roleTab'[t][id] = <<>>]_vars

(***************************************************************************)
(* SpecLogin: login after any sequence of register, createUserByAdmin,     *)
(* updateUserByAdmin and deleteUserByAdmin calls on every user, the bodies *)
(* of SpecUpd included.                                                    *)
(***************************************************************************)
LogLoginDtos ==
  {[NoDto EXCEPT !.email = e, !.password = pw] :
     e \in UpdEmails, pw \in Passwords}

LogRegister ==
  SvcRegister /\ NoStoreError

LogLogin ==
  \E loginDto \in LogLoginDtos :
    \E user \in getUserByEmailWithPrivileges(Store, loginDto.email) :
      /\ last' = Served("login", user.userId, login(user, loginDto), loginDto)
      /\ UNCHANGED <<storeVars, req, calls, tables, mig, dataset>>

NextLogin ==
  \/ LogRegister
  \/ UpdCreateUserByAdmin
  \/ UpdUpdateUserByAdmin
  \/ UpdDeleteUserByAdmin
  \/ LogLogin

SpecLogin == Init /\ [][NextLogin]_vars

\* a user record has the email and the credential of the login body
HasCredential(email, password) ==
  \E id \in UserIds :
    /\ users[id] # nullUser
    /\ users[id].email = email
    /\ users[id].password = password

\* C18: after any sequence of register, createUserByAdmin, updateUserByAdmin
\* and deleteUserByAdmin calls, login(email, p) returns the user exactly when
\* a user record with that email exists and its stored credential is p, and
\* fails with Unauthorized (never with a not-found condition) otherwise.
C18_LoginIffCredential ==
  [][Returned("login") =>
       /\ last'.outcome \in {"ok", "Unauthorized"}
       /\ last'.outcome = "ok" <=>
            HasCredential(last'.dto.email, last'.dto.password)]_vars

(***************************************************************************)
(* SpecConc: register, createUserByAdmin and updateUserByAdmin calls in    *)
(* progress at the same time.  Each call awaits its lookups, then its      *)
(* writes; calls of other callers run between the two.                     *)
(***************************************************************************)
\* the bodies of the concurrent calls, by email
ConcRegisterDto(email) ==
  [NoDto EXCEPT !.name = "A", !.email = email, !.password = "p"]

ConcCreateUserDto(email) ==
  [name |-> "A", email |-> email, password |-> "p", roles |-> <<"FINANCE">>,
   privileges |-> [r \in Role |-> IF r = "FINANCE" THEN "VIEWER"
                                  ELSE undefined]]

ConcUpdateUserDto(email) == [NoDto EXCEPT !.email = email]

\* caller p has passed the lookups of op and goes on to its writes
Checked(p, op, userId, email) ==
  calls' = [calls EXCEPT ![p] = [pc |-> "checked", op |-> op,
                                 userId |-> userId, email |-> email]]

\* register up to the return of getUserByEmail
ConcRegisterLookup(p) ==
  /\ calls[p].pc = "idle"
  /\ \E email \in Emails :
       IF UsersByEmail(Store, email) # {}
       THEN /\ last' = Served("register", 0, "Conflict",
                              ConcRegisterDto(email))
            /\ UNCHANGED calls
       ELSE /\ Checked(p, "register", 0, email)
            /\ UNCHANGED last
  /\ UNCHANGED <<storeVars, req, tables, mig, dataset>>

\* createUserByAdmin up to the return of getUserByEmail
ConcCreateUserByAdminLookup(p) ==
  /\ calls[p].pc = "idle"
  /\ \E email \in Emails :
       IF UsersByEmail(Store, email) # {}
       THEN /\ last' = Served("createUserByAdmin", 0, "Conflict",
                              ConcCreateUserDto(email))
            /\ UNCHANGED calls
       ELSE /\ Checked(p, "createUserByAdmin", 0, email)
            /\ UNCHANGED last
  /\ UNCHANGED <<storeVars, req, tables, mig, dataset>>

\* updateUserByAdmin up to the return of getUserByEmailExcludingUserId
ConcUpdateUserByAdminLookup(p) ==
  /\ calls[p].pc = "idle"
  /\ \E userId \in UserIds, email \in Emails :
       LET existingUser == getUserById(Store, userId)
       IN IF existingUser = nullUser
          THEN /\ last' = Served("updateUserByAdmin", userId, "BadRequest",
                                 ConcUpdateUserDto(email))
               /\ UNCHANGED calls
          ELSE IF /\ email # existingUser.email
                  /\ getUserByEmailExcludingUserId(Store, email, userId) # {}
          THEN /\ last' = Served("updateUserByAdmin", userId, "Conflict",
                                 ConcUpdateUserDto(email))
               /\ UNCHANGED calls
          ELSE /\ Checked(p, "updateUserByAdmin", userId, email)
               /\ UNCHANGED last
  /\ UNCHANGED <<storeVars, req, tables, mig, dataset>>

\* the writes of the call of caller p
ConcWrites(call, userId) ==
  CASE call.op = "register" ->
         createUserWrites(userId, registerUserData(ConcRegisterDto(call.email)))
    [] call.op = "createUserByAdmin" ->
         createUserWrites(userId, ConcCreateUserDto(call.email))
    [] call.op = "updateUserByAdmin" ->
         updateUserWrites(userId, BasicFields(ConcUpdateUserDto(call.email)))

\* the call of caller p writes and returns
ConcWrite(p) ==
  /\ calls[p].pc = "checked"
  /\ LET call == calls[p]
         userId == IF call.op = "updateUserByAdmin" THEN call.userId
                   ELSE nextId
         ws == ConcWrites(call, userId)
     IN /\ userId <= MaxUsers
        /\ LET r == Run(Store, ws, Len(ws))
           IN /\ users' = r.st.users
              /\ roleTab' = r.st.tab
              /\ nextId' = IF call.op = "updateUserByAdmin" THEN nextId
                           ELSE nextId + 1
              /\ last' = Served(call.op, userId, Outcome(r),
                                [NoDto EXCEPT !.email = call.email])
  /\ calls' = [calls EXCEPT ![p] = NoCall]
  /\ UNCHANGED <<req, tables, mig, dataset>>

NextConc ==
  \E p \in Callers :
    \/ ConcRegisterLookup(p)
    \/ ConcCreateUserByAdminLookup(p)
    \/ ConcUpdateUserByAdminLookup(p)
    \/ ConcWrite(p)

SpecConc == Init /\ [][NextConc]_vars

\* C12: no two User records hold the same email, whatever the interleaving
\* of concurrent register, createUserByAdmin and updateUserByAdmin calls.
C12_EmailUnique ==
  \A i, j \in UserIds :
    (i # j /\ users[i] # nullUser /\ users[j] # nullUser) =>
      users[i].email # users[j].email


(***************************************************************************)
(* TableValidatorService and AutoMigratorService.                          *)
(* tables is the set of tables the dataset holds; mig records the last     *)
(* validation or migration: the tables whose probe raised a store error    *)
(* (errors), the probes issued (probed), the ValidationResult, the         *)
(* MigrationResult, the createTable calls issued (creations) and, for a    *)
(* migration, how the call before it ended (after: "clean" when that call  *)
(* was a migration that returned an empty failed list).                    *)
(***************************************************************************)
\* the elements of an array
Elements(arr) == {arr[i] : i \in 1..Len(arr)}

\* a probe that lets its store error out
checkTableExists_uncaught(tabs, errors, tableName) ==
  IF tableName \in errors THEN [exists |-> FALSE, threw |-> TRUE]
  ELSE [exists |-> tableName \in tabs, threw |-> FALSE]

\* TableValidatorService.checkTableExists: table.exists(), and false when it
\* raises (threw: the error leaves the method)
checkTableExists(tabs, errors, tableName) ==
  IF tableName \in errors THEN [exists |-> FALSE, threw |-> FALSE]
  ELSE [exists |-> tableName \in tabs, threw |-> FALSE]

\* the loop over expectedTables of validateAllTablesExist, from the i-th
\* name on, v holding the lists pushed so far
RECURSIVE CheckRoleTables(_, _, _, _)
CheckRoleTables(tabs, errors, i, v) ==
  IF i > Len(getExpectedTableNames) THEN v
  ELSE LET tableName == getExpectedTableNames[i]
           c == checkTableExists(tabs, errors, tableName)
           w == [v EXCEPT !.probed = Append(@, tableName)]
       IN IF c.threw THEN [w EXCEPT !.outcome = "StoreError"]
          ELSE CheckRoleTables(tabs, errors, i + 1,
                 IF c.exists
                 THEN [w EXCEPT !.existingTables = Append(@, tableName)]
                 ELSE [w EXCEPT !.missingTables = Append(@, tableName)])

\* TableValidatorService.validateAllTablesExist
validateAllTablesExist(tabs, errors) ==
  LET v == CheckRoleTables(tabs, errors, 1,
                           [NoMigration EXCEPT !.errors = errors])
      c == checkTableExists(tabs, errors, "users")
      w == [v EXCEPT !.probed = Append(@, "users")]
  IN IF v.outcome # "ok" THEN v
     ELSE IF c.threw THEN [w EXCEPT !.outcome = "StoreError"]
     ELSE [w EXCEPT !.usersTableExists = c.exists,
                    !.allTablesExist = (v.missingTables = <<>> /\ c.exists)]

\* a creation that replaces the tables of the dataset
createTable_replace(tabs, fails, tableName) ==
  IF tableName \in fails THEN [tabs |-> tabs, ok |-> FALSE]
  ELSE [tabs |-> {tableName}, ok |-> TRUE]

\* dataset.createTable(tableName, { schema }): raises for the tables of fails
createTable(tabs, fails, tableName) ==
  IF tableName \in fails THEN [tabs |-> tabs, ok |-> FALSE]
  ELSE [tabs |-> tabs \cup {tableName}, ok |-> TRUE]

\* creations that stop at the first one that raises
RECURSIVE CreateTables_abort(_, _, _, _)
CreateTables_abort(names, fails, i, m) ==
  IF i > Len(names) THEN m
  ELSE LET c == createTable(m.tabs, fails, names[i])
           n == [m EXCEPT !.tabs = c.tabs,
                          !.creations = Append(@, names[i])]
       IN IF c.ok
          THEN CreateTables_abort(names, fails, i + 1,
                                  [n EXCEPT !.created = Append(@, names[i])])
          ELSE [n EXCEPT !.failed = Append(@, names[i])]

\* the creations of autoCreateMissingTables (each in its try/catch), from the
\* i-th name of names on, m holding the dataset and the lists pushed so far
RECURSIVE CreateTables(_, _, _, _)
CreateTables(names, fails, i, m) ==
  IF i > Len(names) THEN m
  ELSE LET c == createTable(m.tabs, fails, names[i])
           n == [m EXCEPT !.tabs = c.tabs,
                          !.creations = Append(@, names[i])]
       IN CreateTables(names, fails, i + 1,
            IF c.ok THEN [n EXCEPT !.created = Append(@, names[i])]
            ELSE [n EXCEPT !.failed = Append(@, names[i])])

\* a migration that creates without validating
autoCreateMissingTables_unvalidated(tabs, errors, fails) ==
  LET validation == validateAllTablesExist(tabs, errors)
  IN CreateTables(<<"users">> \o getExpectedTableNames, fails, 1,
                  [validation |-> validation, tabs |-> tabs,
                   created |-> <<>>, failed |-> <<>>, creations |-> <<>>])

\* AutoMigratorService.autoCreateMissingTables
autoCreateMissingTables(tabs, errors, fails) ==
  LET validation == validateAllTablesExist(tabs, errors)
      none == [validation |-> validation, tabs |-> tabs, created |-> <<>>,
               failed |-> <<>>, creations |-> <<>>]
  IN IF validation.outcome # "ok" \/ validation.allTablesExist THEN none
     ELSE CreateTables((IF validation.usersTableExists THEN <<>>
                        ELSE <<"users">>) \o validation.missingTables,
                       fails, 1, none)

\* AutoMigratorService.ensureDatasetExists: an error of dataset.exists() or
\* of createDataset is logged and thrown again
ensureDatasetExists(exists, error) ==
  IF error = "exists" THEN [dataset |-> exists, outcome |-> "StoreError"]
  ELSE IF exists THEN [dataset |-> TRUE, outcome |-> "ok"]
  ELSE IF error = "createDataset"
       THEN [dataset |-> FALSE, outcome |-> "StoreError"]
  ELSE [dataset |-> TRUE, outcome |-> "ok"]

(***************************************************************************)
(* SpecMigrate: validations and migrations of a dataset that starts with   *)
(* any of the tables, every probe and every creation possibly raising.     *)
(***************************************************************************)
\* the tables whose probe can raise, the tables whose creation can raise
ProbeErrors == {"user", "admin", "users"}

CreateErrors == {"user", "finance", "users"}

\* a dataset that may be absent and, when it is there, holds any of the
\* tables; the tables it holds have the seeded rows
InitMigrate ==
  /\ dataset \in BOOLEAN
  /\ tables \in IF dataset THEN SUBSET AllTables ELSE {{}}
  /\ users = [id \in UserIds |->
                IF id = 1 /\ "users" \in tables THEN adminUser ELSE nullUser]
  /\ roleTab = [t \in RoleTables |->
                  [id \in UserIds |->
                     IF t = "admin" /\ id = 1 /\ t \in tables
                     THEN <<"EDITOR">> ELSE <<>>]]
  /\ nextId = 2
  /\ last = Called("init", 1, "ok")
  /\ req = NoRequest
  /\ calls = [p \in Callers |-> NoCall]
  /\ mig = NoMigration

\* the creations that raise: those of fails, and every creation while the
\* dataset is absent
Raising(fails) == IF dataset THEN fails ELSE AllTables

\* the outcomes of the store calls of ensureDatasetExists: none raises,
\* dataset.exists() raises, createDataset raises
DatasetErrors == {"none", "exists", "createDataset"}

\* how the call before the one that starts ended
MigratedClean ==
  IF mig.op = "autoCreateMissingTables" /\ mig.failed = <<>> THEN "clean"
  ELSE "other"

ValidateAllTablesExist ==
  \E errors \in SUBSET ProbeErrors :
    /\ mig' = [validateAllTablesExist(tables, errors) EXCEPT
                 !.op = "validateAllTablesExist"]
    /\ UNCHANGED <<storeVars, last, req, calls, tables, dataset>>

AutoCreateMissingTables ==
  \E errors \in SUBSET ProbeErrors, fails \in SUBSET CreateErrors :
    LET r == autoCreateMissingTables(tables, errors, Raising(fails))
    IN /\ tables' = r.tabs
       /\ mig' = [r.validation EXCEPT !.op = "autoCreateMissingTables",
                                      !.after = MigratedClean,
                                      !.created = r.created,
                                      !.failed = r.failed,
                                      !.creations = r.creations]
       /\ UNCHANGED <<storeVars, last, req, calls, dataset>>

EnsureDatasetExists ==
  \E error \in DatasetErrors :
    LET r == ensureDatasetExists(dataset, error)
    IN /\ dataset' = r.dataset
       /\ mig' = [NoMigration EXCEPT !.op = "ensureDatasetExists",
                                     !.outcome = r.outcome]
       /\ UNCHANGED <<storeVars, last, req, calls, tables>>

NextMigrate ==
  \/ EnsureDatasetExists
  \/ ValidateAllTablesExist
  \/ AutoCreateMissingTables

SpecMigrate == InitMigrate /\ [][NextMigrate]_vars

\* C19: validateAllTablesExist probes every expected role table and the
\* users table even when probes raise store errors; a table whose probe
\* raised is reported missing; existingTables and missingTables are disjoint
\* and together are the expected role tables; allTablesExist is true exactly
\* when missingTables is empty and usersTableExists is true.
C19_ValidationResult ==
  mig.op = "validateAllTablesExist" =>
    /\ mig.outcome = "ok"
    /\ mig.probed = getExpectedTableNames \o <<"users">>
    /\ \A t \in mig.errors \cap RoleTables : t \in Elements(mig.missingTables)
    /\ "users" \in mig.errors => ~mig.usersTableExists
    /\ Elements(mig.existingTables) \cap Elements(mig.missingTables) = {}
    /\ Elements(mig.existingTables) \cup Elements(mig.missingTables)
         = Elements(getExpectedTableNames)
    /\ Len(mig.existingTables) + Len(mig.missingTables)
         = Len(getExpectedTableNames)
    /\ mig.allTablesExist <=>
         (mig.missingTables = <<>> /\ mig.usersTableExists)

C19_Witness ==
  /\ mig.op = "validateAllTablesExist"
  /\ getExpectedTableNames[1] \in mig.errors \cap tables
  /\ mig.existingTables # <<>>
  /\ mig.missingTables # <<>>

ReportedMissing ==
  Elements(mig.missingTables)
    \cup (IF mig.usersTableExists THEN {} ELSE {"users"})

\* C21: when the Validator reports something missing, autoCreateMissingTables
\* attempts the creation of every missing role table and of the users table
\* if it is absent, going on after a creation that fails; each of those
\* tables is in exactly one of created and failed, and no table reported as
\* existing is in either list.
C21_EveryMissingTableAttempted ==
  (mig.op = "autoCreateMissingTables" /\ ~mig.allTablesExist) =>
    /\ Elements(mig.creations) = ReportedMissing
    /\ Len(mig.creations) = Cardinality(ReportedMissing)
    /\ Elements(mig.created) \cup Elements(mig.failed) = ReportedMissing
    /\ Elements(mig.created) \cap Elements(mig.failed) = {}
    /\ Len(mig.created) + Len(mig.failed) = Cardinality(ReportedMissing)
    /\ Elements(mig.existingTables)
         \cap (Elements(mig.created) \cup Elements(mig.failed)) = {}
    /\ mig.usersTableExists =>
         "users" \notin Elements(mig.created) \cup Elements(mig.failed)

C21_Witness ==
  /\ mig.op = "autoCreateMissingTables"
  /\ ~mig.allTablesExist
  /\ mig.existingTables # <<>>
  /\ Len(mig.creations) >= 3
  /\ mig.creations[1] \in Elements(mig.failed)
  /\ mig.creations[Len(mig.creations)] \in Elements(mig.created)


\* C22: migration is additive only: no step of ensureDatasetExists,
\* validateAllTablesExist or autoCreateMissingTables removes a table or the
\* dataset, and the rows of the tables that exist stay as they were.
C22_AdditiveOnly ==
  [][/\ tables \subseteq tables'
     /\ dataset => dataset'
     /\ "users" \in tables => users' = users
     /\ \A t \in RoleTables \cap tables : roleTab'[t] = roleTab[t]]_vars

C22_Witness ==
  /\ mig.op = "autoCreateMissingTables"
  /\ mig.created # <<>>
  /\ mig.failed # <<>>
  /\ "admin" \in Elements(mig.existingTables)
  /\ roleTab["admin"][1] = <<"EDITOR">>
  /\ users[1] = adminUser


(***************************************************************************)
(* AppModule.onModuleInit.  mig.autoMigrate is the AUTO_MIGRATE flag of    *)
(* the startup, mig.startup its outcome ("ok": onModuleInit returned,      *)
(* "Error": it threw) and mig.named the tables its error names.            *)
(***************************************************************************)
\* a startup that never throws for missing tables
onModuleInit_lenient(autoMigrate, exists, tabs, error, errors, fails) ==
  LET validation == validateAllTablesExist(tabs, errors)
  IN [validation |-> validation, dataset |-> exists, tabs |-> tabs,
      created |-> <<>>, failed |-> <<>>, creations |-> <<>>,
      startup |-> "ok", named |-> <<>>]

\* AppModule.onModuleInit; fails are the creations that raise once the
\* dataset exists
onModuleInit(autoMigrate, exists, tabs, error, errors, fails) ==
  IF autoMigrate
  THEN LET e == ensureDatasetExists(exists, error)
           r == autoCreateMissingTables(tabs, errors, fails)
       IN IF e.outcome # "ok"
          THEN [validation |-> NoMigration, dataset |-> e.dataset,
                tabs |-> tabs, created |-> <<>>, failed |-> <<>>,
                creations |-> <<>>, startup |-> "Error", named |-> <<>>]
          ELSE [validation |-> r.validation, dataset |-> e.dataset,
                tabs |-> r.tabs, created |-> r.created, failed |-> r.failed,
                creations |-> r.creations,
                startup |-> IF r.validation.outcome = "ok" THEN "ok"
                            ELSE "Error",
                named |-> <<>>]
  ELSE LET validation == validateAllTablesExist(tabs, errors)
           missing == validation.missingTables
                        \o (IF validation.usersTableExists THEN <<>>
                            ELSE <<"users">>)
       IN [validation |-> validation, dataset |-> exists, tabs |-> tabs,
           created |-> <<>>, failed |-> <<>>, creations |-> <<>>,
           startup |-> IF validation.outcome = "ok"
                          /\ validation.allTablesExist
                       THEN "ok" ELSE "Error",
           named |-> IF validation.outcome = "ok"
                        /\ ~validation.allTablesExist
                     THEN missing ELSE <<>>]

(***************************************************************************)
(* SpecStartup: one startup of the application, with the flag on or off,   *)
(* on a dataset that is absent or holds any of the tables.                 *)
(***************************************************************************)
Startup(autoMigrate) ==
  /\ mig.op = "none"
  /\ \E error \in DatasetErrors, errors \in SUBSET ProbeErrors,
        fails \in SUBSET CreateErrors :
       LET r == onModuleInit(autoMigrate, dataset, tables, error, errors,
                             fails)
       IN /\ dataset' = r.dataset
          /\ tables' = r.tabs
          /\ mig' = [r.validation EXCEPT !.op = "onModuleInit",
                                         !.autoMigrate = autoMigrate,
                                         !.created = r.created,
                                         !.failed = r.failed,
                                         !.creations = r.creations,
                                         !.startup = r.startup,
                                         !.named = r.named]
  /\ UNCHANGED <<storeVars, last, req, calls>>

\* process.env.AUTO_MIGRATE === 'true' or not
NextStartup == \E autoMigrate \in BOOLEAN : Startup(autoMigrate)

SpecStartup == InitMigrate /\ [][NextStartup]_vars

\* C23: with the auto-migration flag off, startup succeeds exactly when the
\* Validator reports every expected role table and the users table as
\* existing; otherwise it fails with an error that names exactly the missing
\* role tables, and the users table when it is missing, and in either case
\* no table is created.
C23_StartupWithoutMigration ==
  [][(mig'.op = "onModuleInit" /\ ~mig'.autoMigrate) =>
       /\ mig'.startup = "ok" <=>
            (mig'.missingTables = <<>> /\ mig'.usersTableExists)
       /\ mig'.startup # "ok" =>
            /\ mig'.startup = "Error"
            /\ Elements(mig'.named)
                 = Elements(mig'.missingTables)
                     \cup (IF mig'.usersTableExists THEN {} ELSE {"users"})
            /\ Len(mig'.named)
                 = Len(mig'.missingTables)
                     + (IF mig'.usersTableExists THEN 0 ELSE 1)
       /\ mig'.creations = <<>>
       /\ tables' = tables
       /\ dataset' = dataset]_vars

C23_Witness ==
  /\ mig.op = "onModuleInit"
  /\ ~mig.autoMigrate
  /\ mig.startup = "Error"
  /\ mig.existingTables # <<>>
  /\ Len(mig.named) >= 2
  /\ "users" \in Elements(mig.named)

\* C28: with the auto-migration flag on, a startup that completes without
\* raising an error leaves every expected role table and the users table in
\* the dataset.
C28_StartupLeavesAllTables ==
  (mig.op = "onModuleInit" /\ mig.autoMigrate /\ mig.startup = "ok") =>
    tables = AllTables


(***************************************************************************)
(* Properties of the data access layer (Spec).                             *)
(***************************************************************************)
\* C24: after createUser succeeded with a privilege for every role of roles,
\* getUserPrivilegeForRole(id, R) returns privileges[R] for every R of roles
\* and null (a value, no error) for every other role.
C24_PrivilegeRoundTrip ==
  [][(last'.op = "createUser" /\ last'.outcome = "ok") =>
       \A userData \in UserDatas, failAt \in FailPoints :
         createUser(userData, failAt) =>
           \A R \in Role :
             getUserPrivilegeForRole(Store', nextId, R)
               = IF R \in RoleSet(userData.roles)
                 THEN {userData.privileges[R]}
                 ELSE {null}]_vars

C24_Witness ==
  /\ last.op = "createUser"
  /\ last.outcome = "ok"
  /\ users[last.userId].roles = <<"ADMIN", "FINANCE">>
  /\ getUserPrivilegeForRole(Store, last.userId, "ADMIN") = {"EDITOR"}
  /\ getUserPrivilegeForRole(Store, last.userId, "FINANCE") = {"VIEWER"}
  /\ getUserPrivilegeForRole(Store, last.userId, "LEARNER") = {null}


\* the role tables holding a row of user id are those its roles array names
ConsistentUser(id) ==
  users[id] # nullUser /\ TablesHolding(Store, id) = TablesOfRoles(Store, id)

\* C25: updateUserRolesAndPrivileges issues every role-table write before
\* the write of the roles array, so a call that fails leaves the roles array
\* as it was; when the call succeeds on a consistent user, the live privilege
\* of every role of newRoles is newPrivileges[role], every dropped role has
\* no row of the user, and the roles array is newRoles.
C25_TablesBeforeRolesArray ==
  [][last'.op = "updateUserRolesAndPrivileges" =>
       LET id == last'.userId
       IN /\ last'.outcome # "ok" => users'[id] = users[id]
          /\ last'.outcome = "ok" =>
               \A newRoles \in RoleLists :
                 \A newPrivileges \in PrivilegeMaps(newRoles) :
                   LET ws == updateUserRolesAndPrivilegesWrites(
                               users[id], id, newRoles, newPrivileges)
                   IN updateUserRolesAndPrivileges(id, newRoles,
                                                   newPrivileges, Len(ws)) =>
                        /\ ws[Len(ws)].table = "users"
                        /\ \A i \in 1..(Len(ws) - 1) : ws[i].table # "users"
                        /\ users'[id].roles = newRoles
                        /\ ConsistentUser(id) =>
                             /\ \A R \in RoleSet(newRoles) :
                                  getUserPrivilegeForRole(Store', id, R)
                                    = {newPrivileges[R]}
                             /\ \A R \in RoleSet(users[id].roles)
                                          \ RoleSet(newRoles) :
                                  roleTab'[getRoleTableName(R)][id] = <<>>]_vars

\* a successful update that dropped FINANCE, kept ADMIN with a new privilege
\* and left the roles array [ADMIN]
C25_Witness ==
  /\ last.op = "updateUserRolesAndPrivileges"
  /\ last.outcome = "ok"
  /\ users[last.userId].roles = <<"ADMIN">>
  /\ roleTab["admin"][last.userId] = <<"VIEWER">>
  /\ roleTab["finance"][last.userId] = <<>>


\* no role table holds two rows of one user and no roles array names a role
\* twice
NoDuplicates(st) ==
  /\ \A t \in RoleTables : \A id \in UserIds : Len(st.tab[t][id]) <= 1
  /\ \A id \in UserIds :
       \A i, j \in 1..Len(st.users[id].roles) :
         st.users[id].roles[i] = st.users[id].roles[j] => i = j

\* C26: whatever role lists the callers supply, lists naming a role twice
\* included, a successful createUser or updateUserRolesAndPrivileges call
\* (the calls createUserByAdmin and updateUserByAdmin delegate to) on a store
\* without duplicates ends in a store where each role table holds at most one
\* row per userId and no roles array names a role twice.
C26_NoDuplicateRoles ==
  [][(/\ last'.op \in {"createUser", "updateUserRolesAndPrivileges"}
      /\ last'.outcome = "ok"
      /\ NoDuplicates(Store)) => NoDuplicates(Store')]_vars


(***************************************************************************)
(* SpecOrphan: requests of the seeded admin through the pipeline, between  *)
(* updateUserRolesAndPrivileges calls on it that can fail at any write and *)
(* so leave role rows its roles array does not name.                       *)
(***************************************************************************)
OrphanUpdate ==
  /\ req.pc = "idle"
  /\ \E newRoles \in RoleLists, failAt \in FailPoints :
       \E newPrivileges \in PrivilegeMaps(newRoles) :
         updateUserRolesAndPrivileges(adminUser.userId, newRoles,
                                      newPrivileges, failAt)
  /\ UNCHANGED <<req, calls, tables, mig, dataset>>

OrphanReceive ==
  \E declaredRoles \in DeclaredRoles,
     declaredPrivilege \in DeclaredPrivileges :
    Receive("valid", adminUser.userId, "protected", declaredRoles,
            declaredPrivilege)

OrphanVerifyToken == JwtAuthMiddleware_use(<<"ADMIN">>, <<>>, FALSE)

OrphanCheckPrivilege == PrivilegeGuard_canActivate("none")

NextOrphan ==
  \/ OrphanUpdate
  \/ OrphanReceive
  \/ OrphanVerifyToken
  \/ AuthGuard_canActivate
  \/ RolesGuard_canActivate
  \/ OrphanCheckPrivilege
  \/ Handler_protected
  \/ Respond

SpecOrphan == Init /\ [][NextOrphan]_vars

\* the roles of which a role table holds a row of the request's identity
\* while its roles array does not name them
Orphaned ==
  {R \in Role : /\ R \notin RoleSet(req.user.roles)
                /\ roleTab[getRoleTableName(R)][req.user.userId] # <<>>}

\* C27: the PBAC gate looks up the live privilege only of roles the
\* identity's roles array contains, and when it allows, a role of the roles
\* array among the candidates has a live privilege that meets the
\* requirement: a row of a role absent from the roles array grants nothing.
C27_OrphanGrantsNothing ==
  PbacActed =>
    /\ RoleSet(req.lookups) \subseteq RoleSet(req.user.roles)
    /\ (PbacAllowed /\ req.requiredPrivilege # undefined) =>
         \E R \in Candidates \cap RoleSet(req.user.roles) :
           \E p \in LivePrivileges(R) : grants(p, req.requiredPrivilege)

\* the gate denied although an orphaned row of a candidate role holds the
\* required privilege
C27_Witness ==
  /\ PbacForbidden
  /\ req.lookups # <<>>
  /\ \E R \in Orphaned \cap Candidates :
       req.requiredPrivilege \in LivePrivileges(R)


(***************************************************************************)
(* SpecRevoke: SpecOrphan with deleteUser calls on the seeded admin.  The  *)
(* token of every request was issued while the admin held ADMIN (its role  *)
(* snapshot is [ADMIN]) and has not expired.                               *)
(***************************************************************************)
RevokeDeleteUser ==
  /\ req.pc = "idle"
  /\ \E failAt \in FailPoints : deleteUser(adminUser.userId, failAt)
  /\ UNCHANGED <<req, calls, tables, mig, dataset>>

NextRevoke ==
  \/ OrphanUpdate
  \/ RevokeDeleteUser
  \/ OrphanReceive
  \/ OrphanVerifyToken
  \/ AuthGuard_canActivate
  \/ RolesGuard_canActivate
  \/ OrphanCheckPrivilege
  \/ Handler_protected
  \/ Respond

SpecRevoke == Init /\ [][NextRevoke]_vars

\* the request has passed the middleware or was rejected by it
PastMiddleware == req.header = "valid" /\ req.trace # <<>>

\* C29: once role R is no longer in the roles array of a user, every call of
\* that user to an operation requiring R is denied, also with an unexpired
\* token issued while the user held R; once the user record is deleted,
\* every call with the user's unexpired token fails with Unauthorized.
C29_RevocationOnNextCall ==
  PastMiddleware =>
    /\ users[req.userId] = nullUser =>
         req.pc = "done" /\ req.status = "Unauthorized"
    /\ \A R \in Role :
         (/\ users[req.userId] # nullUser
          /\ req.requiredRoles = <<R>>
          /\ R \notin RoleSet(users[req.userId].roles)
          /\ req.pc \in {"handler", "done"}) =>
           req.pc = "done" /\ req.status = "Forbidden"

\* a call requiring ADMIN is denied right after a successful update removed
\* ADMIN from the caller
C29_Witness ==
  /\ PastMiddleware
  /\ last.op = "updateUserRolesAndPrivileges"
  /\ last.outcome = "ok"
  /\ users[req.userId] # nullUser
  /\ "ADMIN" \notin RoleSet(users[req.userId].roles)
  /\ req.requiredRoles = <<"ADMIN">>
  /\ req.pc = "done"
  /\ req.status = "Forbidden"


(***************************************************************************)
(* SpecRace: a deleteUser call and an updateUserRolesAndPrivileges call on *)
(* the seeded admin run concurrently.  Each call reads the user, derives   *)
(* its statements from what it read and issues them one at a time; the     *)
(* statements of the two calls interleave in every order.  The store       *)
(* raises no error.                                                        *)
(***************************************************************************)
\* caller p has no call in progress
NoRace == [pc |-> "idle", op |-> "none", userId |-> 0, email |-> undefined,
           ws |-> <<>>]

\* caller p has read the user and goes on to the statements ws
Reading(p, op, userId, ws) ==
  calls' = [calls EXCEPT ![p] = [pc |-> "writing", op |-> op,
                                 userId |-> userId, email |-> undefined,
                                 ws |-> ws]]

InitRace ==
  /\ InitStore
  /\ last = Called("init", 1, "ok")
  /\ req = NoRequest
  /\ calls = [p \in Callers |-> NoRace]
  /\ tables = AllTables
  /\ mig = NoMigration
  /\ dataset = TRUE

\* deleteUser up to the return of getUserById
RaceDeleteUserRead(p) ==
  /\ calls[p].pc = "idle"
  /\ LET userId == adminUser.userId
         user == getUserById(Store, userId)
     IN IF user = nullUser
        THEN /\ last' = Called("deleteUser", userId, "Error: User not found")
             /\ UNCHANGED calls
        ELSE /\ Reading(p, "deleteUser", userId,
                        deleteUserWrites(user, userId))
             /\ UNCHANGED last
  /\ UNCHANGED <<storeVars, req, tables, mig, dataset>>

\* updateUserRolesAndPrivileges up to the return of getUserById
RaceUpdateUserRolesAndPrivilegesRead(p) ==
  /\ calls[p].pc = "idle"
  /\ LET userId == adminUser.userId
         user == getUserById(Store, userId)
     IN IF user = nullUser
        THEN /\ last' = Called("updateUserRolesAndPrivileges", userId,
                               "Error: User not found")
             /\ UNCHANGED calls
        ELSE /\ \E newRoles \in RoleLists :
                  \E newPrivileges \in PrivilegeMaps(newRoles) :
                    LET ws == updateUserRolesAndPrivilegesWrites(
                                user, userId, newRoles, newPrivileges)
                    IN /\ Accepted(ws) = Len(ws)
                       /\ Reading(p, "updateUserRolesAndPrivileges", userId,
                                  ws)
             /\ UNCHANGED last
  /\ UNCHANGED <<storeVars, req, tables, mig, dataset>>

\* the call of caller p issues its next statement, and returns after its
\* last one
RaceWrite(p) ==
  /\ calls[p].pc = "writing"
  /\ LET call == calls[p]
         st == ApplyWrite(Store, Head(call.ws))
     IN /\ WithinRows(st)
        /\ users' = st.users
        /\ roleTab' = st.tab
        /\ IF Tail(call.ws) = <<>>
           THEN /\ calls' = [calls EXCEPT ![p] = NoRace]
                /\ last' = Called(call.op, call.userId, "ok")
           ELSE /\ calls' = [calls EXCEPT ![p].ws = Tail(call.ws)]
                /\ UNCHANGED last
  /\ UNCHANGED <<nextId, req, tables, mig, dataset>>

\* the first caller deletes, the others update
NextRace ==
  \/ RaceDeleteUserRead(1)
  \/ \E p \in Callers \ {1} :
       RaceUpdateUserRolesAndPrivilegesRead(p)
  \/ \E p \in Callers : RaceWrite(p)

SpecRace == InitRace /\ [][NextRace]_vars

\* both calls have returned
RaceReturned == \A p \in Callers : calls[p].pc = "idle"

\* C30: whatever the interleaving of the store steps of a deleteUser(id)
\* call with those of a concurrent updateUserRolesAndPrivileges(id, ...)
\* call, once both calls have returned, no per-role table holds a row of id
\* when no User record with id exists.
C30_NoRowOfDeletedUser ==
  (RaceReturned /\ users[adminUser.userId] = nullUser) =>
    \A t \in RoleTables : roleTab[t][adminUser.userId] = <<>>

====
